---- MODULE Spec2Model ----
(***************************************************************************)
(* Rolling-origin cross-validation of pycaret/time_series.py:              *)
(*   _get_cv_n_folds, get_folds, _fit_and_score and the candidate/fold     *)
(*   loop of BaseGridSearch.fit.evaluate_candidates (Spec);                *)
(*   the whole search, from ForecastingGridSearchCV.__init__ through       *)
(*   BaseGridSearch.fit, _format_results, selection and refit (SearchSpec);*)
(*   cross_validate_ts with the tasks it hands to Parallel (CVSpec);       *)
(*   evaluate_candidates with its batch of parallel tasks (ParallelSpec);  *)
(*   searches whose scorers return inf, under the warning filters          *)
(*   (NonFiniteSpec); several calls of fit on one object (ReuseSpec);      *)
(*   two searches on two objects running in two threads (ConcurrentSpec);  *)
(*   the three calls that run fold tasks, side by side (IsolationSpec);    *)
(*   setup, set_current_experiment and the guarded functions               *)
(*   (ExperimentSpec).                                                     *)
(*                                                                         *)
(* A series y is modelled by its index, the sequence of time keys          *)
(* 0 .. len(y)-1 (strictly increasing, so key = position).  A splitter cv  *)
(* is a record of the attributes the code reads (initial_window,           *)
(* step_length, fh) and of the ones its split() depends on (window_length, *)
(* start_with_window, and its class: SLIDING is SlidingWindowSplitter,     *)
(* EXPANDING is ExpandingWindowSplitter).  split_initial and split are the *)
(* splitter methods of the sktime release the source refers to (v0.5.3).   *)
(***************************************************************************)
EXTENDS Integers, Sequences, FiniteSets, TLC

\* ------------------------------------------------------------------ bounds
MaxLen == 8
MaxStep == 3
MaxWin == 3
MaxH == 3
NCandidates == 2

VARIABLES y, cv, pc, cand, n_splits, n_folds, i, rolling_y_train, y_test,
          y_test_initial, y_pred, folds, out, err,
          candidate_params, self, strategy, batch, results,
          all_candidate_params, all_out, models,
          args, tasks, completed, test_scores,
          filters, shown, before, CURRENT_EXPERIMENT, experiments, outcome,
          thread, parked

\* the search object, the strategy of its _run_search and the locals of fit
search == <<self, strategy, batch, results, all_candidate_params, all_out>>

\* cross_validate_ts: its arguments, the tasks handed to Parallel, the order
\* of their completion and the value returned
parallel == <<args, tasks, completed, test_scores>>

\* the module's global: the experiment installed by setup or
\* set_current_experiment, the experiment objects created so far and the
\* outcome of the last top-level call
experiment == <<CURRENT_EXPERIMENT, experiments, outcome>>

\* the threads of the process: the number of the thread that is running and,
\* when a second thread is inside a call of fit, the frame of that call
\* while the thread waits (<<>>: there is no second thread)
scheduler == <<thread, parked>>

\* the process around the calls: the filters of the warnings module, the
\* warnings shown to the caller, the search object as it was at the entry of
\* each call of fit, the current experiment and the threads
ambient == <<filters, shown, before, experiment, scheduler>>

vars == <<y, cv, pc, cand, n_splits, n_folds, i, rolling_y_train, y_test,
          y_test_initial, y_pred, folds, out, err, candidate_params, search,
          models, parallel, ambient>>

\* the state once the module is imported: warnings.filterwarnings("ignore")
\* has put "ignore" in front of the filters, _CURRENT_EXPERIMENT is None
Imported ==
  /\ filters = <<"ignore">>
  /\ shown = {}
  /\ before = <<>>
  /\ CURRENT_EXPERIMENT = <<>>
  /\ experiments = <<>>
  /\ outcome = <<>>
  /\ thread = 1
  /\ parked = <<>>

\* ------------------------------------------------------- numpy and pandas
Max(a, b) == IF a >= b THEN a ELSE b

\* np.arange(a, b) as a sequence
arange(a, b) == [k \in 1..(IF b > a THEN b - a ELSE 0) |-> a + k - 1]

\* ix.iloc[pos] for an array of 0-based positions; IndexError when out of bounds
ilocInBounds(ix, pos) == \A k \in 1..Len(pos) : pos[k] >= 0 /\ pos[k] < Len(ix)

iloc(ix, pos) == [k \in 1..Len(pos) |-> ix[pos[k] + 1]]

ilocTry(ix, pos) ==
  IF ilocInBounds(ix, pos) THEN [ok |-> TRUE, ix |-> iloc(ix, pos)]
  ELSE [ok |-> FALSE, ix |-> <<>>]

\* ix[~ix.duplicated(keep="first")]
\* variant: no de-duplication
DropDuplicatedKeepAll(ix) == ix

DropDuplicated(ix) ==
  LET F[k \in 0..Len(ix)] ==
        IF k = 0 THEN <<>>
        ELSE IF \E j \in 1..(k - 1) : ix[j] = ix[k] THEN F[k - 1]
             ELSE Append(F[k - 1], ix[k])
  IN F[Len(ix)]

\* ix.iloc[-n:]
\* variant: no truncation
ilocLastWhole(ix, n) == ix

ilocLast(ix, n) ==
  IF n = 0 THEN ix
  ELSE IF Len(ix) <= n THEN ix
  ELSE SubSeq(ix, Len(ix) - n + 1, Len(ix))

\* int(a / b) for b > 0: the float quotient truncated towards zero
\* variant: rounding up
IntDivCeil(a, b) == IF a >= 0 THEN (a + b - 1) \div b ELSE -((-a) \div b)

IntDiv(a, b) == IF a >= 0 THEN a \div b ELSE -((-a) \div b)

\* the strictly increasing sequence of the elements of a set of integers
SortedSeq(S) ==
  LET F[T \in SUBSET S] ==
        IF T = {} THEN <<>>
        ELSE LET m == CHOOSE x \in T : \A z \in T : x <= z
             IN <<m>> \o F[T \ {m}]
  IN F[S]

SeqSet(s) == {s[k] : k \in 1..Len(s)}

\* ------------------------------------------------------- sktime splitters
\* cv.split_initial(y): (np.arange(initial), np.arange(initial, len(y)))
SplitInitialTrain(c, yy) == arange(0, c.initial_window)

\* variant: the held-out region starts on the last training point
SplitInitialTestOverlapping(c, yy) == arange(c.initial_window - 1, Len(yy))

SplitInitialTest(c, yy) == arange(c.initial_window, Len(yy))

\* cv.split(z): raises ValueError for an empty horizon (check_fh) and when the
\* window and the horizon do not fit in z (_get_end)
SplitRaises(c, n) ==
  IF Len(c.fh) = 0 THEN TRUE ELSE c.window_length + c.fh[Len(c.fh)] > n

SplitStart(c) == IF c.start_with_window THEN c.window_length ELSE 0

SplitEnd(c, n) == n - c.fh[Len(c.fh)] + 1

\* the j-th (0-based) split point of range(start, end, step_length)
SplitPoint(c, j) == SplitStart(c) + j * c.step_length

HasSplit(c, n, j) == SplitPoint(c, j) < SplitEnd(c, n)

\* the training window of a split point, negative positions filtered out
SplitTrain(c, sp) ==
  IF c.policy = "SLIDING"
  THEN arange(Max(sp - c.window_length, 0), sp)
  ELSE arange(Max(SplitStart(c) - c.window_length, 0), sp)

\* the test window of a split point: split_point + fh - 1
SplitTest(c, sp) == [k \in 1..Len(c.fh) |-> sp + c.fh[k] - 1]

\* ---------------------------------------------------------- _get_cv_n_folds
\* variant: one fold more
GetCvNFoldsPlusOne(yy, c) == IntDiv(Len(yy) - c.initial_window, c.step_length) + 1

GetCvNFolds(yy, c) == IntDiv(Len(yy) - c.initial_window, c.step_length)

\* ------------------------------------------------------------------ scorers
\* a scorer is its _sign (1: greater is better, -1: lower is better) and the
\* values its _score_func can return; scoring maps metric names to scorers
Scorer(sign, values) == [sign |-> sign, values |-> values]

\* _get_metrics_dict_ts: scorer objects are kept as they are
GetMetricsDict(scoring) == scoring

\* the fold_scores dictionaries a task can return: one value per metric
ScoreChoices(scorers) ==
  {f \in [DOMAIN scorers -> UNION {scorers[m].values : m \in DOMAIN scorers}] :
     \A m \in DOMAIN scorers : f[m] \in scorers[m].values}

\* ----------------------------------------------------------- _format_results
\* _aggregate_score_dicts: the values of one metric over the task results
AggregateScoreDicts(task_out, m) == [t \in 1..Len(task_out) |-> task_out[t].scores[m]]

\* np.array(array).reshape(n_candidates, n_splits): row-major
\* variant: column-major
ReshapeColumnMajor(array, n_candidates, splits) ==
  [c \in 1..n_candidates |-> [k \in 1..splits |-> array[(k - 1) * n_candidates + c]]]

Reshape(array, n_candidates, splits) ==
  [c \in 1..n_candidates |-> [k \in 1..splits |-> array[(c - 1) * splits + k]]]

SumSeq(row) ==
  LET F[k \in 0..Len(row)] == IF k = 0 THEN 0 ELSE F[k - 1] + row[k]
  IN F[Len(row)]

\* np.float64 inf as a score: a value above every finite score
inf == 1000

\* np.average(array, axis=1) of one row, as the fraction num / den; the mean
\* of a row with an infinite score is inf, the fraction 1 / 0
Average(row) ==
  IF \E k \in 1..Len(row) : row[k] = inf THEN [num |-> 1, den |-> 0]
  ELSE [num |-> SumSeq(row), den |-> Len(row)]

\* ~np.isfinite(mean)
NonFinite(mean) == mean.den = 0

MeanLess(a, b) == a.num * b.den < b.num * a.den

MeanEqual(a, b) == a.num * b.den = b.num * a.den

\* the order of the ranking keys: -array_means if greater_is_better else
\* array_means
\* variant: the sign of the scorer is ignored
KeyLessUnsigned(greater_is_better, a, b) == MeanLess(a, b)

KeyLess(greater_is_better, a, b) ==
  IF greater_is_better THEN MeanLess(b, a) ELSE MeanLess(a, b)

\* rankdata(keys, method="min"): one plus the number of strictly smaller keys
\* variant: method="dense", one plus the number of distinct smaller keys
RankDataDense(means, greater_is_better) ==
  [c \in 1..Len(means) |->
     1 + Cardinality({means[d].num : d \in {e \in 1..Len(means) :
                        KeyLess(greater_is_better, means[e], means[c])}})]

RankData(means, greater_is_better) ==
  [c \in 1..Len(means) |->
     1 + Cardinality({d \in 1..Len(means) :
                        KeyLess(greater_is_better, means[d], means[c])})]

\* _store("test_<m>", ..., splits=True, rank=True,
\*        greater_is_better=True if scorer._sign == 1 else False)
Store(array, n_candidates, splits, scorer) ==
  LET rows == Reshape(array, n_candidates, splits)
      means == [c \in 1..n_candidates |-> Average(rows[c])]
  IN [split |-> rows, mean |-> means, rank |-> RankData(means, scorer.sign = 1)]

\* the keys "test_<m>" of the table whose means are not all finite: _store
\* calls warnings.warn(..., category=UserWarning) for each of them
NonFiniteKeys(table) ==
  {m \in DOMAIN table.test :
     \E c \in 1..Len(table.test[m].mean) : NonFinite(table.test[m].mean[c])}

\* warnings.warn under the filters of the process: the first filter decides,
\* "ignore" drops the warning, "always" shows it to the caller
Warn(table, call) ==
  shown' = IF filters[1] = "ignore" THEN shown
           ELSE shown \cup {[key |-> m, call |-> call] : m \in NonFiniteKeys(table)}

\* the table: results["params"], and per metric m the columns
\* split<k>_test_<m>, mean_test_<m> and rank_test_<m>
FormatResults(cands, scorers, task_out, splits) ==
  [params |-> cands,
   test |-> [m \in DOMAIN scorers |->
               Store(AggregateScoreDicts(task_out, m), Len(cands), splits,
                     scorers[m])]]

\* ranks.argmin(): the first position of the smallest entry
\* variant: the last position of the smallest entry
ArgMinLast(ranks) ==
  CHOOSE c \in 1..Len(ranks) :
    /\ \A d \in 1..Len(ranks) : ranks[c] <= ranks[d]
    /\ \A d \in (c + 1)..Len(ranks) : ranks[d] # ranks[c]

ArgMin(ranks) ==
  CHOOSE c \in 1..Len(ranks) :
    /\ \A d \in 1..Len(ranks) : ranks[c] <= ranks[d]
    /\ \A d \in 1..(c - 1) : ranks[d] # ranks[c]

\* ---------------------------------------------------------- the search object
\* a forecaster object: the parameters set on it and the training indexes it
\* was fit on, one per call of fit
Forecaster(params) == [params |-> params, fits |-> <<>>]

\* a candidate: a dictionary of one parameter
Candidate(name, v) == [n \in {name} |-> v]

\* the parameter names, in sorted order
ParamNames == <<"param_a", "param_b">>

\* a grid entry: is_list is FALSE for a value that is not a sequence
Values(is_list, values) == [is_list |-> is_list, values |-> values]

Grid(name, values) == [n \in {name} |-> Values(TRUE, values)]

\* _check_param_grid: every value is a sequence, and none is empty
CheckParamGrid(param_grid) ==
  \A n \in DOMAIN param_grid :
    param_grid[n].is_list /\ Len(param_grid[n].values) >= 1

\* ParameterGrid(param_grid): the keys sorted, itertools.product of the value
\* lists (the last key varies fastest), one dictionary per combination
\* variant: the first value of every list is left out after the first key
ParameterGridSkipping(param_grid) ==
  LET keys == SelectSeq(ParamNames, LAMBDA n : n \in DOMAIN param_grid)
      P[k \in 0..Len(keys)] ==
        IF k = 0 THEN <<[n \in {} |-> 0]>>
        ELSE LET name == keys[Len(keys) + 1 - k]
                 vals == param_grid[name].values
                 Q[v \in 0..Len(vals)] ==
                   IF v = 0 THEN <<>>
                   ELSE IF v = 1 /\ k < Len(keys) THEN Q[v - 1]
                   ELSE Q[v - 1] \o
                        [r \in 1..Len(P[k - 1]) |->
                           [n \in {name} \cup DOMAIN P[k - 1][r] |->
                              IF n = name THEN vals[v] ELSE P[k - 1][r][n]]]
             IN Q[Len(vals)]
  IN P[Len(keys)]

ParameterGrid(param_grid) ==
  LET keys == SelectSeq(ParamNames, LAMBDA n : n \in DOMAIN param_grid)
      P[k \in 0..Len(keys)] ==
        IF k = 0 THEN <<[n \in {} |-> 0]>>
        ELSE LET name == keys[Len(keys) + 1 - k]
                 vals == param_grid[name].values
                 Q[v \in 0..Len(vals)] ==
                   IF v = 0 THEN <<>>
                   ELSE Q[v - 1] \o
                        [r \in 1..Len(P[k - 1]) |->
                           [n \in {name} \cup DOMAIN P[k - 1][r] |->
                              IF n = name THEN vals[v] ELSE P[k - 1][r][n]]]
             IN Q[Len(vals)]
  IN P[Len(keys)]

\* the object after BaseGridSearch.__init__: best_params_ and cv_results_ are
\* empty dictionaries, the other result attributes do not exist yet (<<>>)
NewSearch(param_grid, scoring, refit_metric, refit) ==
  [param_grid |-> param_grid, scoring |-> scoring,
   refit_metric |-> refit_metric, refit |-> refit,
   best_params_ |-> [n \in {} |-> 0], cv_results_ |-> <<>>,
   best_index_ |-> <<>>, best_score_ |-> <<>>, best_forecaster_ |-> <<>>,
   refit_time_ |-> <<>>, scorer_ |-> <<>>, n_splits_ |-> <<>>,
   is_fitted |-> FALSE]

\* _run_search: ForecastingGridSearchCV submits ParameterGrid(param_grid) in
\* one call of evaluate_candidates; another strategy submits its batches in
\* several calls
GridStrategy == [kind |-> "grid", batches |-> <<>>]

CustomStrategy(batches) == [kind |-> "custom", batches |-> batches]

Batches(obj, strat) ==
  IF strat.kind = "grid" THEN <<ParameterGrid(obj.param_grid)>>
  ELSE strat.batches

\* ------------------------------------------------------------------ inputs
Horizons == {SortedSeq(S) : S \in SUBSET (1..MaxH)}

Policies == {"EXPANDING", "SLIDING"}

Splitter(p, w, s, wl, sww, fh) ==
  [policy |-> p, initial_window |-> w, step_length |-> s, window_length |-> wl,
   start_with_window |-> sww, fh |-> fh]

\* every series of 1..MaxLen points with every splitter within the bounds
BoundedInputs ==
  {<<arange(0, L), Splitter(p, w, s, wl, sww, fh)>> :
     L \in 1..MaxLen, p \in Policies, w \in 1..(MaxLen + 1), s \in 1..MaxStep,
     wl \in 1..MaxWin, sww \in BOOLEAN, fh \in Horizons}

\* the series and window of scenarios A and B: 14 points, initial_window 10,
\* step_length 1, horizon {1,2,3}
ScenarioInputs ==
  {<<arange(0, 14), Splitter(p, 10, 1, wl, sww, <<1, 2, 3>>)>> :
     p \in Policies, wl \in 1..MaxWin, sww \in BOOLEAN}

Inputs ==
  {x \in BoundedInputs : x[2].initial_window <= Len(x[1]) + 1}
    \cup ScenarioInputs

NoError == [in |-> "none", type |-> "none"]

\* cross_validate_ts is not called
NoCrossValidation ==
  /\ args = <<>>
  /\ tasks = <<>>
  /\ completed = <<>>
  /\ test_scores = <<>>

Init ==
  /\ \E x \in Inputs : y = x[1] /\ cv = x[2]
  /\ pc = "start"
  /\ cand = 0
  /\ n_splits = 0
  /\ n_folds = 0
  /\ i = 0
  /\ rolling_y_train = <<>>
  /\ y_test = <<>>
  /\ y_test_initial = <<>>
  /\ y_pred = <<>>
  /\ folds = [c \in 1..NCandidates |-> <<>>]
  /\ out = <<>>
  /\ err = NoError
  /\ candidate_params = [c \in 1..NCandidates |-> Candidate("param_a", c)]
  /\ self = NewSearch(Grid("param_a", arange(1, NCandidates + 1)),
                      [mape |-> Scorer(-1, {1})], "mape", TRUE)
  /\ strategy = GridStrategy
  /\ batch = 1
  /\ results = <<>>
  /\ all_candidate_params = <<>>
  /\ all_out = <<>>
  /\ models = <<Forecaster(<<>>), Forecaster(<<>>)>>
  /\ NoCrossValidation
  /\ Imported

\* ------------------------------------------------------- evaluate_candidates
\* candidate_params = list(...); n_splits = _get_cv_n_folds(y, cv)
EvaluateCandidates ==
  /\ pc = "start"
  /\ n_splits' = GetCvNFolds(y, cv)
  /\ cand' = 1
  /\ pc' = "next"
  /\ UNCHANGED <<ambient, parallel, candidate_params, search, models,
                 y_pred, y, cv, n_folds, i, rolling_y_train, y_test,
                 y_test_initial, folds, out, err>>

\* for parameters in candidate_params: ... in get_folds(cv, y): a fresh
\* generator per candidate; n_folds = _get_cv_n_folds(y, cv)
\* variant: one generator object shared by the candidates
CallGetFoldsReused ==
  /\ pc = "next"
  /\ cand <= Len(candidate_params)
  /\ n_folds' = GetCvNFolds(y, cv)
  /\ pc' = "gen"
  /\ UNCHANGED <<ambient, parallel, candidate_params, search, models,
                 y_pred, y, cv, cand, n_splits, i, rolling_y_train, y_test,
                 y_test_initial, folds, out, err>>

CallGetFolds ==
  /\ pc = "next"
  /\ cand <= Len(candidate_params)
  /\ n_folds' = GetCvNFolds(y, cv)
  /\ i' = 0
  /\ rolling_y_train' = <<>>
  /\ y_test' = <<>>
  /\ y_test_initial' = <<>>
  /\ pc' = "gen"
  /\ UNCHANGED <<ambient, parallel, candidate_params, search, models,
                 y_pred, y, cv, cand, n_splits, folds, out, err>>

\* ------------------------------------------------------------------ get_folds
Yield ==
  /\ folds' = [folds EXCEPT ![cand] =
                 Append(@, [train |-> rolling_y_train', test |-> y_test'])]
  /\ y_pred' = <<>>
  /\ pc' = "task"

Raise(where, type) ==
  /\ err' = [in |-> where, type |-> type]
  /\ pc' = "failed"

\* y_test_initial.iloc[np.arange(len(cv.fh))]: the first len(cv.fh) entries,
\* or IndexError (ok = FALSE) when the held-out region is shorter
\* variant: a slice [:len(cv.fh)], which never raises
FirstTestSliced(c, held) ==
  [ok |-> TRUE,
   ix |-> SubSeq(held, 1, IF Len(c.fh) <= Len(held) THEN Len(c.fh) ELSE Len(held))]

FirstTest(c, held) == ilocTry(held, arange(0, Len(c.fh)))

\* i == 0: the initial split
FirstFold ==
  /\ pc = "gen" /\ i < n_folds /\ i = 0
  /\ ilocTry(y, SplitInitialTest(cv, y)).ok
  /\ ilocTry(y, SplitInitialTrain(cv, y)).ok
  /\ y_test_initial' = ilocTry(y, SplitInitialTest(cv, y)).ix
  /\ rolling_y_train' = ilocTry(y, SplitInitialTrain(cv, y)).ix
  /\ FirstTest(cv, y_test_initial').ok
  /\ y_test' = FirstTest(cv, y_test_initial').ix
  /\ Yield
  /\ UNCHANGED <<ambient, parallel, candidate_params, search, models,
                 y, cv, cand, n_splits, n_folds, i, out, err>>

\* i == 0: a positional indexer out of bounds
FirstFoldIndexError ==
  /\ pc = "gen" /\ i < n_folds /\ i = 0
  /\ IF ilocTry(y, SplitInitialTest(cv, y)).ok
        /\ ilocTry(y, SplitInitialTrain(cv, y)).ok
     THEN ~FirstTest(cv, ilocTry(y, SplitInitialTest(cv, y)).ix).ok
     ELSE TRUE
  /\ Raise("get_folds", "IndexError")
  /\ UNCHANGED <<ambient, parallel, candidate_params, search, models,
                 y_pred, y, cv, cand, n_splits, n_folds, i, rolling_y_train,
                 y_test, y_test_initial, folds, out>>

\* rolling_y_train after pd.concat, de-duplication and, for a sliding
\* splitter, truncation to the last initial_window entries
Roll(c, rolling, y_train) ==
  LET r == DropDuplicated(rolling \o y_train)
  IN IF c.policy = "SLIDING" THEN ilocLast(r, c.initial_window) ELSE r

\* i >= 1 and cv.split(y_test_initial) has a split number i - 1
NextFold ==
  /\ pc = "gen" /\ i < n_folds /\ i >= 1
  /\ ~SplitRaises(cv, Len(y_test_initial))
  /\ HasSplit(cv, Len(y_test_initial), i - 1)
  /\ LET sp == SplitPoint(cv, i - 1)
     IN /\ rolling_y_train' =
             Roll(cv, rolling_y_train, iloc(y_test_initial, SplitTrain(cv, sp)))
        /\ y_test' = iloc(y_test_initial, SplitTest(cv, sp))
  /\ Yield
  /\ UNCHANGED <<ambient, parallel, candidate_params, search, models,
                 y, cv, cand, n_splits, n_folds, i, y_test_initial, out, err>>

\* i >= 1 and the enumeration ends before j == i - 1: nothing is reassigned
\* variant: the test window is cleared at the start of every iteration
StaleFoldCleared ==
  /\ pc = "gen" /\ i < n_folds /\ i >= 1
  /\ ~SplitRaises(cv, Len(y_test_initial))
  /\ ~HasSplit(cv, Len(y_test_initial), i - 1)
  /\ rolling_y_train' = rolling_y_train
  /\ y_test' = <<>>
  /\ Yield
  /\ UNCHANGED <<ambient, parallel, candidate_params, search, models,
                 y, cv, cand, n_splits, n_folds, i, y_test_initial, out, err>>

StaleFold ==
  /\ pc = "gen" /\ i < n_folds /\ i >= 1
  /\ ~SplitRaises(cv, Len(y_test_initial))
  /\ ~HasSplit(cv, Len(y_test_initial), i - 1)
  /\ UNCHANGED <<rolling_y_train, y_test>>
  /\ Yield
  /\ UNCHANGED <<ambient, parallel, candidate_params, search, models,
                 y, cv, cand, n_splits, n_folds, i, y_test_initial, out, err>>

\* i >= 1 and cv.split(y_test_initial) raises
SplitValueError ==
  /\ pc = "gen" /\ i < n_folds /\ i >= 1
  /\ SplitRaises(cv, Len(y_test_initial))
  /\ Raise("get_folds", "ValueError")
  /\ UNCHANGED <<ambient, parallel, candidate_params, search, models,
                 y_pred, y, cv, cand, n_splits, n_folds, i, rolling_y_train,
                 y_test, y_test_initial, folds, out>>

\* the loop over np.arange(n_folds) ends: the generator is exhausted and the
\* comprehension moves to the next candidate
Exhausted ==
  /\ pc = "gen" /\ ~(i < n_folds)
  /\ cand' = cand + 1
  /\ pc' = "next"
  /\ UNCHANGED <<ambient, parallel, candidate_params, search, models,
                 y_pred, y, cv, n_splits, n_folds, i, rolling_y_train, y_test,
                 y_test_initial, folds, out, err>>

\* ------------------------------------------------------------ _fit_and_score
\* the index a forecaster's prediction may carry for a test index
Predictions(test) ==
  {test,
   [k \in 1..Len(test) |-> test[k] + 1],
   [k \in 1..Len(test) |-> test[Len(test) + 1 - k]],
   SubSeq(test, 1, Len(test) - 1),
   <<>>}
  \cup (IF Len(test) >= 1
        THEN {Append(test, test[Len(test)] + 1), <<test[1], test[1]>>}
        ELSE {<<0>>})

\* (y_test.index.values != y_pred.index.values).any(), an elementwise
\* comparison under numpy broadcasting: "shape" when the operands do not
\* broadcast
AlignmentCheck(test, pred) ==
  IF Len(test) = Len(pred)
  THEN IF \E k \in 1..Len(test) : test[k] # pred[k] THEN "mismatch" ELSE "ok"
  ELSE IF Len(test) = 1
  THEN IF \E k \in 1..Len(pred) : test[1] # pred[k] THEN "mismatch" ELSE "ok"
  ELSE IF Len(pred) = 1
  THEN IF \E k \in 1..Len(test) : test[k] # pred[1] THEN "mismatch" ELSE "ok"
  ELSE "shape"

\* forecaster=clone(base_forecaster); forecaster.set_params(**parameters);
\* forecaster.fit(y_train, ...): the forecaster of the task of the fold just
\* yielded
\* variant: the task works on the base forecaster itself, without a clone
TaskFitShared ==
  models' = [models EXCEPT ![2] = [params |-> candidate_params[cand],
                                   fits |-> Append(@.fits, rolling_y_train)]]

TaskFit ==
  models' = Append(models, [params |-> candidate_params[cand],
                            fits |-> <<rolling_y_train>>])

\* the task of the fold just yielded: fit, predict, check the index, score
FitAndScore ==
  /\ pc = "task"
  /\ TaskFit
  /\ \E pred \in Predictions(y_test) :
       /\ AlignmentCheck(y_test, pred) = "ok"
       /\ y_pred' = pred
  /\ \E sc \in ScoreChoices(GetMetricsDict(self.scoring)) :
       out' = Append(out, [cand |-> cand, fold |-> i, scores |-> sc])
  /\ i' = i + 1
  /\ pc' = "gen"
  /\ UNCHANGED <<ambient, parallel, candidate_params, search,
                 y, cv, cand, n_splits, n_folds, rolling_y_train, y_test,
                 y_test_initial, folds, err>>

\* raise ValueError("y_test indices do not match y_pred_indices ...")
FitAndScoreMismatch ==
  /\ pc = "task"
  /\ TaskFit
  /\ \E pred \in Predictions(y_test) : AlignmentCheck(y_test, pred) = "mismatch"
  /\ Raise("_fit_and_score", "ValueError")
  /\ UNCHANGED <<ambient, parallel, candidate_params, search,
                 y_pred, y, cv, cand, n_splits, n_folds, i, rolling_y_train,
                 y_test, y_test_initial, folds, out>>

\* operands that do not broadcast: the comparison itself raises ValueError, or
\* (older numpy) yields a plain bool whose .any() raises AttributeError
FitAndScoreShapeError ==
  /\ pc = "task"
  /\ TaskFit
  /\ \E pred \in Predictions(y_test) : AlignmentCheck(y_test, pred) = "shape"
  /\ \E t \in {"ValueError", "AttributeError"} : Raise("_fit_and_score", t)
  /\ UNCHANGED <<ambient, parallel, candidate_params, search,
                 y_pred, y, cv, cand, n_splits, n_folds, i, rolling_y_train,
                 y_test, y_test_initial, folds, out>>

\* forecaster.fit, forecaster.predict or a scorer raises: nothing catches it
FitAndScoreForecasterError ==
  /\ pc = "task"
  /\ TaskFit
  /\ Raise("_fit_and_score", "ForecasterError")
  /\ UNCHANGED <<ambient, parallel, candidate_params, search,
                 y_pred, y, cv, cand, n_splits,
                 n_folds, i, rolling_y_train, y_test, y_test_initial, folds,
                 out>>

\* --------------------------------------------- evaluate_candidates, continued
\* if len(out) < 1: raise ValueError("No fits were performed. ...")
\* variant: no check of len(out)
NoFitsUnchecked ==
  /\ pc = "next" /\ cand > Len(candidate_params)
  /\ Len(out) < 1
  /\ pc' = "collected"
  /\ UNCHANGED <<ambient, parallel, candidate_params, search, models,
                 y_pred, y, cv, cand, n_splits, n_folds, i, rolling_y_train,
                 y_test, y_test_initial, folds, out, err>>

NoFits ==
  /\ pc = "next" /\ cand > Len(candidate_params)
  /\ Len(out) < 1
  /\ Raise("evaluate_candidates", "ValueError")
  /\ UNCHANGED <<ambient, parallel, candidate_params, search, models,
                 y_pred, y, cv, cand, n_splits, n_folds, i, rolling_y_train,
                 y_test, y_test_initial, folds, out>>

\* all_candidate_params.extend(candidate_params); all_out.extend(out);
\* results = self._format_results(all_candidate_params, scorers, all_out,
\*                                n_splits)
\* variant: every call publishes its table as self.cv_results_
CollectedPublishing ==
  /\ pc = "next" /\ cand > Len(candidate_params)
  /\ ~(Len(out) < 1)
  /\ all_candidate_params' = all_candidate_params \o candidate_params
  /\ all_out' = all_out \o out
  /\ results' = <<FormatResults(all_candidate_params', GetMetricsDict(self.scoring),
                                all_out', n_splits)>>
  /\ self' = [self EXCEPT !.cv_results_ = results']
  /\ Warn(results'[1], Len(before))
  /\ pc' = "collected"
  /\ UNCHANGED <<filters, before, experiment, scheduler, parallel,
                 candidate_params, strategy, batch, models, y_pred, y,
                 cv, cand, n_splits, n_folds, i, rolling_y_train, y_test,
                 y_test_initial, folds, out, err>>

\* variant: only the batch of this call is formatted
CollectedBatchOnly ==
  /\ pc = "next" /\ cand > Len(candidate_params)
  /\ ~(Len(out) < 1)
  /\ all_candidate_params' = all_candidate_params \o candidate_params
  /\ all_out' = all_out \o out
  /\ results' = <<FormatResults(candidate_params, GetMetricsDict(self.scoring),
                                out, n_splits)>>
  /\ Warn(results'[1], Len(before))
  /\ pc' = "collected"
  /\ UNCHANGED <<filters, before, experiment, scheduler, parallel,
                 candidate_params, self, strategy, batch, models, y_pred, y,
                 cv, cand, n_splits, n_folds, i, rolling_y_train, y_test,
                 y_test_initial, folds, out, err>>

Collected ==
  /\ pc = "next" /\ cand > Len(candidate_params)
  /\ ~(Len(out) < 1)
  /\ all_candidate_params' = all_candidate_params \o candidate_params
  /\ all_out' = all_out \o out
  /\ results' = <<FormatResults(all_candidate_params', GetMetricsDict(self.scoring),
                                all_out', n_splits)>>
  /\ Warn(results'[1], Len(before))
  /\ pc' = "collected"
  /\ UNCHANGED <<filters, before, experiment, scheduler, parallel,
                 candidate_params, self, strategy, batch, models, y_pred, y,
                 cv, cand, n_splits, n_folds, i, rolling_y_train, y_test,
                 y_test_initial, folds, out, err>>

Next ==
  \/ EvaluateCandidates
  \/ CallGetFolds
  \/ FirstFold
  \/ FirstFoldIndexError
  \/ NextFold
  \/ StaleFold
  \/ SplitValueError
  \/ Exhausted
  \/ FitAndScore
  \/ FitAndScoreMismatch
  \/ FitAndScoreShapeError
  \/ FitAndScoreForecasterError
  \/ NoFits
  \/ Collected

Spec == Init /\ [][Next]_vars

\* ------------------------------------------------ the search: __init__ and fit
Scores == {1, 2}

MaxCells == 4

\* the series and splitters of the searches: one step, a window of one point
SearchFolds ==
  {x \in Inputs :
     /\ Len(x[1]) <= 4
     /\ x[2].policy = "EXPANDING"
     /\ x[2].step_length = 1
     /\ x[2].window_length = 1
     /\ x[2].start_with_window
     /\ IF Len(x[2].fh) = 0 THEN TRUE ELSE x[2].fh[Len(x[2].fh)] <= 2}

SearchScorings ==
  {[m \in S |-> Scorer(IF m = "r2" THEN 1 ELSE -1, Scores)] :
     S \in {{"mape"}, {"r2"}, {"mape", "r2"}}}

\* grids of up to two parameters; a value is a scalar, or a list of up to two
\* entries
GridValues ==
  {Values(FALSE, <<>>), Values(TRUE, <<>>), Values(TRUE, <<1>>),
   Values(TRUE, <<1, 2>>)}

ParamGrids ==
  UNION {[S -> GridValues] : S \in SUBSET {"param_a", "param_b"}}

\* one or two batches of candidates out of param_a = 1 and param_a = 2
CandidateBatches ==
  {<<>>, <<Candidate("param_a", 1)>>, <<Candidate("param_a", 2)>>,
   <<Candidate("param_a", 1), Candidate("param_a", 2)>>}

Strategies ==
  {CustomStrategy(<<b>>) : b \in CandidateBatches}
    \cup {CustomStrategy(<<b1, b2>>) : b1 \in CandidateBatches, b2 \in CandidateBatches}

\* the number of candidates a search submits
NumCandidates(obj, strat) ==
  IF strat.kind = "grid" /\ ~CheckParamGrid(obj.param_grid) THEN 0
  ELSE LET bs == Batches(obj, strat)
       IN SumSeq([b \in 1..Len(bs) |-> Len(bs[b])])

\* a grid search over every grid, or another strategy without a grid
SearchInputs ==
  {[param_grid |-> g, strat |-> GridStrategy] : g \in ParamGrids}
    \cup {[param_grid |-> [n \in {} |-> 0], strat |-> st] : st \in Strategies}

SearchInit ==
  /\ \E x \in SearchFolds, sc \in SearchScorings, rm \in {"mape", "r2"},
        rf \in BOOLEAN, s \in SearchInputs :
       /\ y = x[1] /\ cv = x[2]
       /\ self = NewSearch(s.param_grid, sc, rm, rf)
       /\ strategy = s.strat
       /\ NumCandidates(self, strategy) * GetCvNFolds(y, cv)
            * Cardinality(DOMAIN sc) <= MaxCells
  /\ pc = "new"
  /\ cand = 0
  /\ n_splits = 0
  /\ n_folds = 0
  /\ i = 0
  /\ rolling_y_train = <<>>
  /\ y_test = <<>>
  /\ y_test_initial = <<>>
  /\ y_pred = <<>>
  /\ folds = <<>>
  /\ out = <<>>
  /\ err = NoError
  /\ candidate_params = <<>>
  /\ batch = 1
  /\ results = <<>>
  /\ all_candidate_params = <<>>
  /\ all_out = <<>>
  /\ models = <<Forecaster(<<>>)>>
  /\ NoCrossValidation
  /\ Imported

\* the locals of get_folds and of the tasks
locals == <<cand, n_splits, n_folds, i, rolling_y_train, y_test, y_test_initial,
            y_pred, folds, out>>

\* ForecastingGridSearchCV.__init__: _check_param_grid(param_grid) passes
Construct ==
  /\ pc = "new"
  /\ strategy.kind = "grid" => CheckParamGrid(self.param_grid)
  /\ pc' = "constructed"
  /\ UNCHANGED <<ambient, parallel,
                 y, cv, locals, err, candidate_params, search, models>>

\* ForecastingGridSearchCV.__init__: _check_param_grid(param_grid) raises
ConstructParamGridError ==
  /\ pc = "new"
  /\ strategy.kind = "grid" /\ ~CheckParamGrid(self.param_grid)
  /\ Raise("__init__", "ValueError")
  /\ UNCHANGED <<ambient, parallel, y, cv, locals, candidate_params, search, models>>

\* fit: base_forecaster = clone(self.forecaster); the refit metric is not one
\* of the scorers: raise ValueError
FitRefitMetricError ==
  /\ pc = "constructed"
  /\ before' = Append(before, self)
  /\ models' = Append(models, Forecaster(models[1].params))
  /\ self.refit_metric \notin DOMAIN GetMetricsDict(self.scoring)
  /\ Raise("fit", "ValueError")
  /\ UNCHANGED <<filters, shown, experiment, scheduler, parallel, y, cv, locals, candidate_params, search>>

\* fit up to the call of _run_search: results = {}; all_candidate_params = [];
\* all_out = []
\* variant: evaluation starts without the check of the refit metric
FitUnchecked ==
  /\ pc = "constructed"
  /\ before' = Append(before, self)
  /\ models' = Append(models, Forecaster(models[1].params))
  /\ results' = <<>>
  /\ all_candidate_params' = <<>>
  /\ all_out' = <<>>
  /\ batch' = 1
  /\ pc' = "run_search"
  /\ UNCHANGED <<filters, shown, experiment, scheduler, parallel,
                 y, cv, locals, err, candidate_params, self, strategy>>

Fit ==
  /\ self.refit_metric \in DOMAIN GetMetricsDict(self.scoring)
  /\ FitUnchecked

\* _run_search calls evaluate_candidates with its next batch of candidates
RunSearch ==
  /\ pc = "run_search"
  /\ batch <= Len(Batches(self, strategy))
  /\ candidate_params' = Batches(self, strategy)[batch]
  /\ folds' = [c \in 1..Len(candidate_params') |-> <<>>]
  /\ out' = <<>>
  /\ pc' = "start"
  /\ UNCHANGED <<ambient, parallel,
                 y, cv, cand, n_splits, n_folds, i, rolling_y_train, y_test,
                 y_test_initial, y_pred, err, search, models>>

\* evaluate_candidates returns the table to _run_search
EvaluateCandidatesReturn ==
  /\ pc = "collected"
  /\ batch' = batch + 1
  /\ pc' = "run_search"
  /\ UNCHANGED <<ambient, parallel,
                 y, cv, locals, err, candidate_params, self, strategy, results,
                 all_candidate_params, all_out, models>>

\* _run_search returned: best_index_, best_score_, best_params_ and
\* best_forecaster_ = clone(base_forecaster).set_params(**best_params_)
\* variant: the best forecaster is the base forecaster itself
SelectReusingBase ==
  /\ pc = "run_search"
  /\ batch > Len(Batches(self, strategy))
  /\ LET table == results[1].test[self.refit_metric]
         best == ArgMin(table.rank)
     IN /\ models' = [models EXCEPT ![2].params = results[1].params[best]]
        /\ self' = [self EXCEPT !.best_index_ = <<best - 1>>,
                                !.best_score_ = <<table.mean[best]>>,
                                !.best_params_ = results[1].params[best],
                                !.best_forecaster_ = <<2>>]
  /\ pc' = IF self.refit THEN "refit" ELSE "finish"
  /\ UNCHANGED <<ambient, parallel,
                 y, cv, locals, err, candidate_params, strategy, batch, results,
                 all_candidate_params, all_out>>

\* variant: the best forecaster is fit whether or not refit is set
SelectAlwaysRefitting ==
  /\ pc = "run_search"
  /\ batch > Len(Batches(self, strategy))
  /\ LET table == results[1].test[self.refit_metric]
         best == ArgMin(table.rank)
     IN /\ models' = Append(models, Forecaster(results[1].params[best]))
        /\ self' = [self EXCEPT !.best_index_ = <<best - 1>>,
                                !.best_score_ = <<table.mean[best]>>,
                                !.best_params_ = results[1].params[best],
                                !.best_forecaster_ = <<Len(models')>>]
  /\ pc' = "refit"
  /\ UNCHANGED <<ambient, parallel, y, cv, locals, err, candidate_params,
                 strategy, batch, results, all_candidate_params, all_out>>

\* variant: the table is published with the selection, before the refit
SelectPublishing ==
  /\ pc = "run_search"
  /\ batch > Len(Batches(self, strategy))
  /\ LET table == results[1].test[self.refit_metric]
         best == ArgMin(table.rank)
     IN /\ models' = Append(models, Forecaster(results[1].params[best]))
        /\ self' = [self EXCEPT !.best_index_ = <<best - 1>>,
                                !.best_score_ = <<table.mean[best]>>,
                                !.best_params_ = results[1].params[best],
                                !.best_forecaster_ = <<Len(models')>>,
                                !.cv_results_ = results]
  /\ pc' = IF self.refit THEN "refit" ELSE "finish"
  /\ UNCHANGED <<ambient, parallel, y, cv, locals, err, candidate_params,
                 strategy, batch, results, all_candidate_params, all_out>>

Select ==
  /\ pc = "run_search"
  /\ batch > Len(Batches(self, strategy))
  /\ LET table == results[1].test[self.refit_metric]
         best == ArgMin(table.rank)
     IN /\ models' = Append(models, Forecaster(results[1].params[best]))
        /\ self' = [self EXCEPT !.best_index_ = <<best - 1>>,
                                !.best_score_ = <<table.mean[best]>>,
                                !.best_params_ = results[1].params[best],
                                !.best_forecaster_ = <<Len(models')>>]
  /\ pc' = IF self.refit THEN "refit" ELSE "finish"
  /\ UNCHANGED <<ambient, parallel,
                 y, cv, locals, err, candidate_params, strategy, batch, results,
                 all_candidate_params, all_out>>

\* if self.refit: self.best_forecaster_.fit(y, X, **fit_params);
\* self.refit_time_ = refit_end_time - refit_start_time
\* variant: the fitted flag is set as soon as the best forecaster is fit
RefitPublishing ==
  /\ pc = "refit"
  /\ models' = [models EXCEPT ![self.best_forecaster_[1]].fits = Append(@, y)]
  /\ self' = [self EXCEPT !.refit_time_ = <<"elapsed">>, !.is_fitted = TRUE]
  /\ pc' = "finish"
  /\ UNCHANGED <<ambient, parallel,
                 y, cv, locals, err, candidate_params, strategy, batch, results,
                 all_candidate_params, all_out>>

Refit ==
  /\ pc = "refit"
  /\ models' = [models EXCEPT ![self.best_forecaster_[1]].fits = Append(@, y)]
  /\ self' = [self EXCEPT !.refit_time_ = <<"elapsed">>]
  /\ pc' = "finish"
  /\ UNCHANGED <<ambient, parallel,
                 y, cv, locals, err, candidate_params, strategy, batch, results,
                 all_candidate_params, all_out>>

\* self.best_forecaster_.fit(y, X, **fit_params) is called and raises:
\* refit_time_ is not assigned
RefitForecasterError ==
  /\ pc = "refit"
  /\ models' = [models EXCEPT ![self.best_forecaster_[1]].fits = Append(@, y)]
  /\ Raise("refit", "ForecasterError")
  /\ UNCHANGED <<ambient, parallel, y, cv, locals, candidate_params, search>>

\* self.scorer_ = scorers; self.cv_results_ = results;
\* self.n_splits_ = _get_cv_n_folds(y, cv); self._is_fitted = True
Finish ==
  /\ pc = "finish"
  /\ self' = [self EXCEPT !.scorer_ = <<GetMetricsDict(self.scoring)>>,
                          !.cv_results_ = results,
                          !.n_splits_ = <<GetCvNFolds(y, cv)>>,
                          !.is_fitted = TRUE]
  /\ pc' = "done"
  /\ UNCHANGED <<ambient, parallel,
                 y, cv, locals, err, candidate_params, strategy, batch, results,
                 all_candidate_params, all_out, models>>

SearchNext ==
  \/ Construct
  \/ ConstructParamGridError
  \/ FitRefitMetricError
  \/ Fit
  \/ RunSearch
  \/ EvaluateCandidatesReturn
  \/ Select
  \/ Refit
  \/ RefitForecasterError
  \/ Finish
  \/ Next

SearchSpec == SearchInit /\ [][SearchNext]_vars

\* ----------------------------------------------------------- cross_validate_ts
MaxJobs == 2

\* values of the error_score argument; none of them is a value of a scorer
ErrorScores == {0, -1}

CrossValidateArgs(scoring, n_jobs, error_score) ==
  [scoring |-> scoring, n_jobs |-> n_jobs, error_score |-> error_score]

CVInit ==
  /\ \E x \in SearchFolds, sc \in SearchScorings, nj \in 1..MaxJobs,
        es \in ErrorScores :
       /\ y = x[1] /\ cv = x[2]
       /\ args = CrossValidateArgs(sc, nj, es)
  /\ pc = "cross_validate"
  /\ cand = 0
  /\ n_splits = 0
  /\ n_folds = 0
  /\ i = 0
  /\ rolling_y_train = <<>>
  /\ y_test = <<>>
  /\ y_test_initial = <<>>
  /\ y_pred = <<>>
  /\ folds = <<<<>>>>
  /\ out = <<>>
  /\ err = NoError
  /\ candidate_params = <<>>
  /\ self = <<>>
  /\ strategy = <<>>
  /\ batch = 0
  /\ results = <<>>
  /\ all_candidate_params = <<>>
  /\ all_out = <<>>
  /\ models = <<Forecaster(<<>>)>>
  /\ tasks = <<>>
  /\ completed = <<>>
  /\ test_scores = <<>>
  /\ Imported

\* scoring = _get_metrics_dict_ts(scoring); parallel = Parallel(n_jobs=n_jobs);
\* parallel(... for train, test in get_folds(cv, y)) starts the generator
CrossValidate ==
  /\ pc = "cross_validate"
  /\ cand' = 1
  /\ n_folds' = GetCvNFolds(y, cv)
  /\ i' = 0
  /\ pc' = "gen"
  /\ UNCHANGED <<ambient, parallel, y, cv, n_splits, rolling_y_train, y_test,
                 y_test_initial, y_pred, folds, out, err, candidate_params,
                 search, models>>

\* delayed(_fit_and_score)(forecaster=clone(forecaster), ..., train=train,
\* test=test, parameters=None, ...): the fold just yielded becomes a task
\* variant: every task is handed the caller's forecaster itself
DispatchShared ==
  /\ pc = "task"
  /\ models' = models
  /\ tasks' = Append(tasks, [state |-> "pending", cand |-> cand, fold |-> i,
                             parameters |-> <<>>,
                             model |-> 1, train |-> rolling_y_train,
                             test |-> y_test, scores |-> <<>>,
                             error |-> "none"])
  /\ i' = i + 1
  /\ pc' = "gen"
  /\ UNCHANGED <<ambient, args, completed, test_scores, y, cv, cand, n_splits, n_folds,
                 rolling_y_train, y_test, y_test_initial, y_pred, folds, out,
                 err, candidate_params, search>>

Dispatch ==
  /\ pc = "task"
  /\ models' = Append(models, Forecaster(models[1].params))
  /\ tasks' = Append(tasks, [state |-> "pending", cand |-> cand, fold |-> i,
                             parameters |-> <<>>,
                             model |-> Len(models'), train |-> rolling_y_train,
                             test |-> y_test, scores |-> <<>>,
                             error |-> "none"])
  /\ i' = i + 1
  /\ pc' = "gen"
  /\ UNCHANGED <<ambient, args, completed, test_scores, y, cv, cand, n_splits, n_folds,
                 rolling_y_train, y_test, y_test_initial, y_pred, folds, out,
                 err, candidate_params, search>>

\* the call has neither returned nor raised
Running == pc \in {"gen", "task", "next"}

\* tasks start in the order of their dispatch, at most n_jobs at a time
CanRun(k) ==
  /\ Running
  /\ tasks[k].state = "pending"
  /\ Cardinality({j \in 1..(k - 1) : tasks[j].state = "pending"}) < args.n_jobs

\* if parameters is not None: forecaster.set_params(**parameters);
\* forecaster.fit(y_train, ...), on the forecaster the task was given
\* (parameters: <<>> for None, <<p>> for the dictionary p)
\* variant: the task works on a clone of the forecaster it was given
FitGivenCloned(reg, task) ==
  Append(reg, [params |-> IF task.parameters = <<>> THEN reg[task.model].params
                          ELSE task.parameters[1],
               fits |-> <<task.train>>])

FitGiven(reg, task) ==
  [reg EXCEPT ![task.model] =
     [params |-> IF task.parameters = <<>> THEN @.params ELSE task.parameters[1],
      fits |-> Append(@.fits, task.train)]]

\* a worker ends task k with the outcome (state, scores, error)
Complete(k, state, scores, error) ==
  /\ tasks' = [tasks EXCEPT ![k].state = state, ![k].scores = scores,
                            ![k].error = error]
  /\ models' = FitGiven(models, tasks[k])
  /\ completed' = Append(completed, k)
  /\ UNCHANGED <<ambient, args, test_scores, y, cv, pc, cand, n_splits, n_folds, i,
                 rolling_y_train, y_test, y_test_initial, y_pred, folds, out,
                 err, candidate_params, search>>

\* _fit_and_score of a task returns its fold_scores
TaskReturns ==
  \E k \in 1..Len(tasks) :
    /\ CanRun(k)
    /\ \E pred \in Predictions(tasks[k].test) :
         AlignmentCheck(tasks[k].test, pred) = "ok"
    /\ \E sc \in ScoreChoices(GetMetricsDict(args.scoring)) :
         Complete(k, "done", sc, "none")

\* _fit_and_score of a task raises ValueError: the indices do not match
\* variant: the scores of the task are error_score
TaskMismatchSubstituted ==
  \E k \in 1..Len(tasks) :
    /\ CanRun(k)
    /\ \E pred \in Predictions(tasks[k].test) :
         AlignmentCheck(tasks[k].test, pred) = "mismatch"
    /\ Complete(k, "done",
                [m \in DOMAIN GetMetricsDict(args.scoring) |-> args.error_score],
                "none")

TaskMismatch ==
  \E k \in 1..Len(tasks) :
    /\ CanRun(k)
    /\ \E pred \in Predictions(tasks[k].test) :
         AlignmentCheck(tasks[k].test, pred) = "mismatch"
    /\ Complete(k, "raised", <<>>, "ValueError")

\* _fit_and_score of a task raises on operands that do not broadcast
TaskShapeError ==
  \E k \in 1..Len(tasks) :
    /\ CanRun(k)
    /\ \E pred \in Predictions(tasks[k].test) :
         AlignmentCheck(tasks[k].test, pred) = "shape"
    /\ \E t \in {"ValueError", "AttributeError"} : Complete(k, "raised", <<>>, t)

\* forecaster.fit, forecaster.predict or a scorer of a task raises
TaskForecasterError ==
  \E k \in 1..Len(tasks) :
    /\ CanRun(k)
    /\ Complete(k, "raised", <<>>, "ForecasterError")

\* Parallel re-raises the exception of a task; except Exception: raise
Reraise ==
  /\ Running
  /\ \E k \in 1..Len(tasks) :
       /\ tasks[k].state = "raised"
       /\ Raise("_fit_and_score", tasks[k].error)
  /\ UNCHANGED <<ambient, parallel, y, cv, cand, n_splits, n_folds, i, rolling_y_train,
                 y_test, y_test_initial, y_pred, folds, out, candidate_params,
                 search, models>>

\* (test_scores_dict, fit_time, score_time) = zip(*out) with an empty out
UnpackError ==
  /\ pc = "next"
  /\ Len(tasks) = 0
  /\ Raise("cross_validate_ts", "ValueError")
  /\ UNCHANGED <<ambient, parallel, y, cv, cand, n_splits, n_folds, i, rolling_y_train,
                 y_test, y_test_initial, y_pred, folds, out, candidate_params,
                 search, models>>

\* out holds the results in the order of dispatch;
\* test_scores = _aggregate_score_dicts(test_scores_dict); return test_scores
\* variant: out holds the results in the order of completion
ReturnInCompletionOrder ==
  /\ pc = "next"
  /\ Len(tasks) >= 1
  /\ \A k \in 1..Len(tasks) : tasks[k].state = "done"
  /\ out' = [k \in 1..Len(tasks) |-> [scores |-> tasks[completed[k]].scores]]
  /\ test_scores' = <<[m \in DOMAIN GetMetricsDict(args.scoring) |->
                         AggregateScoreDicts(out', m)]>>
  /\ pc' = "done"
  /\ UNCHANGED <<ambient, args, tasks, completed, y, cv, cand, n_splits, n_folds, i,
                 rolling_y_train, y_test, y_test_initial, y_pred, folds, err,
                 candidate_params, search, models>>

Return ==
  /\ pc = "next"
  /\ Len(tasks) >= 1
  /\ \A k \in 1..Len(tasks) : tasks[k].state = "done"
  /\ out' = [k \in 1..Len(tasks) |-> [scores |-> tasks[k].scores]]
  /\ test_scores' = <<[m \in DOMAIN GetMetricsDict(args.scoring) |->
                         AggregateScoreDicts(out', m)]>>
  /\ pc' = "done"
  /\ UNCHANGED <<ambient, args, tasks, completed, y, cv, cand, n_splits, n_folds, i,
                 rolling_y_train, y_test, y_test_initial, y_pred, folds, err,
                 candidate_params, search, models>>

CVNext ==
  \/ CrossValidate
  \/ FirstFold
  \/ FirstFoldIndexError
  \/ NextFold
  \/ StaleFold
  \/ SplitValueError
  \/ Exhausted
  \/ Dispatch
  \/ TaskReturns
  \/ TaskMismatch
  \/ TaskShapeError
  \/ TaskForecasterError
  \/ Reraise
  \/ UnpackError
  \/ Return

CVSpec == CVInit /\ [][CVNext]_vars

\* --------------------------------- evaluate_candidates with parallel workers
\* one call of evaluate_candidates: args holds what the call passes to
\* Parallel and to _fit_and_score (the scorers, self.n_jobs, self.error_score)
ParallelInit ==
  /\ \E x \in SearchFolds, sc \in SearchScorings, nj \in 1..MaxJobs,
        n \in 1..NCandidates :
       /\ y = x[1] /\ cv = x[2]
       /\ candidate_params = [c \in 1..n |-> Candidate("param_a", c)]
       /\ self = NewSearch(Grid("param_a", arange(1, n + 1)), sc,
                           CHOOSE m \in DOMAIN sc : TRUE, TRUE)
       /\ args = CrossValidateArgs(sc, nj, 0)
       /\ n * GetCvNFolds(y, cv) * Cardinality(DOMAIN sc) <= MaxCells
  /\ pc = "start"
  /\ cand = 0
  /\ n_splits = 0
  /\ n_folds = 0
  /\ i = 0
  /\ rolling_y_train = <<>>
  /\ y_test = <<>>
  /\ y_test_initial = <<>>
  /\ y_pred = <<>>
  /\ folds = [c \in 1..Len(candidate_params) |-> <<>>]
  /\ out = <<>>
  /\ err = NoError
  /\ strategy = GridStrategy
  /\ batch = 1
  /\ results = <<>>
  /\ all_candidate_params = <<>>
  /\ all_out = <<>>
  /\ models = <<Forecaster(<<>>), Forecaster(<<>>)>>
  /\ tasks = <<>>
  /\ completed = <<>>
  /\ test_scores = <<>>
  /\ Imported

\* delayed(_fit_and_score)(forecaster=clone(base_forecaster), ...,
\* parameters=parameters, ...) for the fold just yielded
DispatchCandidate ==
  /\ pc = "task"
  /\ models' = Append(models, Forecaster(models[2].params))
  /\ tasks' = Append(tasks, [state |-> "pending", cand |-> cand, fold |-> i,
                             parameters |-> <<candidate_params[cand]>>,
                             model |-> Len(models'), train |-> rolling_y_train,
                             test |-> y_test, scores |-> <<>>,
                             error |-> "none"])
  /\ i' = i + 1
  /\ pc' = "gen"
  /\ UNCHANGED <<ambient, args, completed, test_scores, y, cv, cand, n_splits, n_folds,
                 rolling_y_train, y_test, y_test_initial, y_pred, folds, out,
                 err, candidate_params, search>>

\* out = parallel(...): the results of the tasks, in the order of dispatch
\* variant: in the order of completion
GatherInCompletionOrder ==
  /\ pc = "next" /\ cand > Len(candidate_params)
  /\ out = <<>>
  /\ Len(tasks) >= 1
  /\ \A k \in 1..Len(tasks) : tasks[k].state = "done"
  /\ out' = [k \in 1..Len(tasks) |->
               [cand |-> tasks[k].cand, fold |-> tasks[k].fold,
                scores |-> tasks[completed[k]].scores]]
  /\ UNCHANGED <<ambient, parallel, y, cv, pc, cand, n_splits, n_folds, i,
                 rolling_y_train, y_test, y_test_initial, y_pred, folds, err,
                 candidate_params, search, models>>

Gather ==
  /\ pc = "next" /\ cand > Len(candidate_params)
  /\ out = <<>>
  /\ Len(tasks) >= 1
  /\ \A k \in 1..Len(tasks) : tasks[k].state = "done"
  /\ out' = [k \in 1..Len(tasks) |->
               [cand |-> tasks[k].cand, fold |-> tasks[k].fold,
                scores |-> tasks[k].scores]]
  /\ UNCHANGED <<ambient, parallel, y, cv, pc, cand, n_splits, n_folds, i,
                 rolling_y_train, y_test, y_test_initial, y_pred, folds, err,
                 candidate_params, search, models>>

\* no task was dispatched: len(out) < 1
NoTasksNoFits == Len(tasks) = 0 /\ NoFits

ParallelNext ==
  \/ EvaluateCandidates
  \/ CallGetFolds
  \/ FirstFold
  \/ FirstFoldIndexError
  \/ NextFold
  \/ StaleFold
  \/ SplitValueError
  \/ Exhausted
  \/ DispatchCandidate
  \/ TaskReturns
  \/ TaskMismatch
  \/ TaskShapeError
  \/ TaskForecasterError
  \/ Reraise
  \/ Gather
  \/ NoTasksNoFits
  \/ Collected

ParallelSpec == ParallelInit /\ [][ParallelNext]_vars

\* ------------------------------------------- searches with non-finite scores
\* scorers that can return inf (a percentage error over a zero actual value)
NonFiniteScorings ==
  {[m \in S |-> Scorer(IF m = "r2" THEN 1 ELSE -1, {1, inf})] :
     S \in {{"mape"}, {"r2"}, {"mape", "r2"}}}

\* the filters of the process when the search runs: as the import left them,
\* or with a filter of the caller in front (warnings.simplefilter("always"))
FilterStates == {<<"ignore">>, <<"always", "ignore">>}

NonFiniteInit ==
  /\ \E x \in SearchFolds, sc \in NonFiniteScorings, rm \in {"mape", "r2"},
        rf \in BOOLEAN, g \in ParamGrids :
       /\ y = x[1] /\ cv = x[2]
       /\ self = NewSearch(g, sc, rm, rf)
       /\ strategy = GridStrategy
       /\ NumCandidates(self, strategy) * GetCvNFolds(y, cv)
            * Cardinality(DOMAIN sc) <= MaxCells
  /\ filters \in FilterStates
  /\ shown = {}
  /\ before = <<>>
  /\ CURRENT_EXPERIMENT = <<>>
  /\ experiments = <<>>
  /\ outcome = <<>>
  /\ thread = 1
  /\ parked = <<>>
  /\ pc = "new"
  /\ cand = 0
  /\ n_splits = 0
  /\ n_folds = 0
  /\ i = 0
  /\ rolling_y_train = <<>>
  /\ y_test = <<>>
  /\ y_test_initial = <<>>
  /\ y_pred = <<>>
  /\ folds = <<>>
  /\ out = <<>>
  /\ err = NoError
  /\ candidate_params = <<>>
  /\ batch = 1
  /\ results = <<>>
  /\ all_candidate_params = <<>>
  /\ all_out = <<>>
  /\ models = <<Forecaster(<<>>)>>
  /\ NoCrossValidation

NonFiniteSpec == NonFiniteInit /\ [][SearchNext]_vars

\* ----------------------------------------- several calls of fit on one object
MaxCalls == 2

\* a grid search over one or two values of param_a with the scorer mape: the
\* search object is constructed and not yet fitted
ReuseInit ==
  /\ \E x \in SearchFolds, sc \in {[mape |-> Scorer(-1, Scores)]},
        rm \in {"mape", "r2"}, rf \in BOOLEAN,
        g \in {Grid("param_a", <<1>>), Grid("param_a", <<1, 2>>)} :
       /\ y = x[1] /\ cv = x[2]
       /\ self = NewSearch(g, sc, rm, rf)
       /\ strategy = GridStrategy
       /\ NumCandidates(self, strategy) * GetCvNFolds(y, cv) <= MaxCells
  /\ Imported
  /\ pc = "constructed"
  /\ cand = 0
  /\ n_splits = 0
  /\ n_folds = 0
  /\ i = 0
  /\ rolling_y_train = <<>>
  /\ y_test = <<>>
  /\ y_test_initial = <<>>
  /\ y_pred = <<>>
  /\ folds = <<>>
  /\ out = <<>>
  /\ err = NoError
  /\ candidate_params = <<>>
  /\ batch = 1
  /\ results = <<>>
  /\ all_candidate_params = <<>>
  /\ all_out = <<>>
  /\ models = <<Forecaster(<<>>)>>
  /\ NoCrossValidation

\* the calls of fit made so far in the process: those of the running thread
\* and those of the waiting thread, which calls fit at least once
CallsMade ==
  Len(before) + (IF parked = <<>> THEN 0 ELSE Max(Len(parked.before), 1))

\* the call before has returned or raised, and the caller calls fit again
Returned == pc \in {"done", "failed"} /\ CallsMade < MaxCalls

\* fit, called again on the same object: results = {}, all_candidate_params =
\* [] and all_out = [] are locals of the call; the attributes of the object
\* keep what the calls before wrote
\* variant: the accumulators outlive the call
FitAgainAccumulating ==
  /\ Returned
  /\ self.refit_metric \in DOMAIN GetMetricsDict(self.scoring)
  /\ before' = Append(before, self)
  /\ models' = Append(models, Forecaster(models[1].params))
  /\ batch' = 1
  /\ err' = NoError
  /\ pc' = "run_search"
  /\ UNCHANGED <<filters, shown, experiment, scheduler, parallel, y, cv, locals,
                 candidate_params, self, strategy, results,
                 all_candidate_params, all_out>>

FitAgain ==
  /\ Returned
  /\ self.refit_metric \in DOMAIN GetMetricsDict(self.scoring)
  /\ before' = Append(before, self)
  /\ models' = Append(models, Forecaster(models[1].params))
  /\ results' = <<>>
  /\ all_candidate_params' = <<>>
  /\ all_out' = <<>>
  /\ batch' = 1
  /\ err' = NoError
  /\ pc' = "run_search"
  /\ UNCHANGED <<filters, shown, experiment, scheduler, parallel, y, cv, locals,
                 candidate_params, self, strategy>>

\* fit, called again: the refit metric is still not one of the scorers
FitAgainRefitMetricError ==
  /\ Returned
  /\ self.refit_metric \notin DOMAIN GetMetricsDict(self.scoring)
  /\ before' = Append(before, self)
  /\ models' = Append(models, Forecaster(models[1].params))
  /\ Raise("fit", "ValueError")
  /\ UNCHANGED <<filters, shown, experiment, scheduler, parallel, y, cv, locals,
                 candidate_params, search>>

ReuseNext ==
  \/ FitRefitMetricError
  \/ Fit
  \/ FitAgain
  \/ FitAgainRefitMetricError
  \/ RunSearch
  \/ EvaluateCandidatesReturn
  \/ Select
  \/ Refit
  \/ RefitForecasterError
  \/ Finish
  \/ Next

ReuseSpec == ReuseInit /\ [][ReuseNext]_vars

\* ------------------------------------ two searches running in two threads
\* the frame of the call of fit the running thread is in: y, cv, the search
\* object, the locals of fit, of evaluate_candidates, of get_folds and of
\* the tasks, the forecasters the call has created and the record of its
\* object at the entry of each of its calls
Frame ==
  [y |-> y, cv |-> cv, pc |-> pc, cand |-> cand, n_splits |-> n_splits,
   n_folds |-> n_folds, i |-> i, rolling_y_train |-> rolling_y_train,
   y_test |-> y_test, y_test_initial |-> y_test_initial, y_pred |-> y_pred,
   folds |-> folds, out |-> out, err |-> err,
   candidate_params |-> candidate_params, self |-> self,
   strategy |-> strategy, batch |-> batch, results |-> results,
   all_candidate_params |-> all_candidate_params, all_out |-> all_out,
   models |-> models, before |-> before]

\* the running thread is in the call of frame f
Holds(f) ==
  /\ y = f.y
  /\ cv = f.cv
  /\ pc = f.pc
  /\ cand = f.cand
  /\ n_splits = f.n_splits
  /\ n_folds = f.n_folds
  /\ i = f.i
  /\ rolling_y_train = f.rolling_y_train
  /\ y_test = f.y_test
  /\ y_test_initial = f.y_test_initial
  /\ y_pred = f.y_pred
  /\ folds = f.folds
  /\ out = f.out
  /\ err = f.err
  /\ candidate_params = f.candidate_params
  /\ self = f.self
  /\ strategy = f.strategy
  /\ batch = f.batch
  /\ results = f.results
  /\ all_candidate_params = f.all_candidate_params
  /\ all_out = f.all_out
  /\ models = f.models
  /\ before = f.before

\* the interpreter resumes the thread whose call has the frame f
\* variant: all_candidate_params and all_out belong to the module, not to the
\* call, so that the resumed call finds what the other call left in them
ResumeSharingAccumulators(f) ==
  /\ y' = f.y
  /\ cv' = f.cv
  /\ pc' = f.pc
  /\ cand' = f.cand
  /\ n_splits' = f.n_splits
  /\ n_folds' = f.n_folds
  /\ i' = f.i
  /\ rolling_y_train' = f.rolling_y_train
  /\ y_test' = f.y_test
  /\ y_test_initial' = f.y_test_initial
  /\ y_pred' = f.y_pred
  /\ folds' = f.folds
  /\ out' = f.out
  /\ err' = f.err
  /\ candidate_params' = f.candidate_params
  /\ self' = f.self
  /\ strategy' = f.strategy
  /\ batch' = f.batch
  /\ results' = f.results
  /\ all_candidate_params' = all_candidate_params
  /\ all_out' = all_out
  /\ models' = f.models
  /\ before' = f.before

Resume(f) ==
  /\ y' = f.y
  /\ cv' = f.cv
  /\ pc' = f.pc
  /\ cand' = f.cand
  /\ n_splits' = f.n_splits
  /\ n_folds' = f.n_folds
  /\ i' = f.i
  /\ rolling_y_train' = f.rolling_y_train
  /\ y_test' = f.y_test
  /\ y_test_initial' = f.y_test_initial
  /\ y_pred' = f.y_pred
  /\ folds' = f.folds
  /\ out' = f.out
  /\ err' = f.err
  /\ candidate_params' = f.candidate_params
  /\ self' = f.self
  /\ strategy' = f.strategy
  /\ batch' = f.batch
  /\ results' = f.results
  /\ all_candidate_params' = f.all_candidate_params
  /\ all_out' = f.all_out
  /\ models' = f.models
  /\ before' = f.before

\* the interpreter switches threads between two steps: the frame of the
\* running call is kept for later and the other call goes on; the filters,
\* the warnings shown and the module's global belong to the process
Switch ==
  /\ parked # <<>>
  /\ parked' = Frame
  /\ Resume(parked)
  /\ thread' = 3 - thread
  /\ UNCHANGED <<filters, shown, experiment, parallel>>

\* the frame at the entry of the first call of fit on a new search object
Entry(x, param_grid, scoring, refit_metric, refit) ==
  [y |-> x[1], cv |-> x[2], pc |-> "constructed", cand |-> 0, n_splits |-> 0,
   n_folds |-> 0, i |-> 0, rolling_y_train |-> <<>>, y_test |-> <<>>,
   y_test_initial |-> <<>>, y_pred |-> <<>>, folds |-> <<>>, out |-> <<>>,
   err |-> NoError, candidate_params |-> <<>>,
   self |-> NewSearch(param_grid, scoring, refit_metric, refit),
   strategy |-> GridStrategy, batch |-> 1, results |-> <<>>,
   all_candidate_params |-> <<>>, all_out |-> <<>>,
   models |-> <<Forecaster(<<>>)>>, before |-> <<>>]

\* the search of the first thread: a series of two points (one fold) and a
\* grid of two candidates on param_a
FirstSearches ==
  {Entry(<<arange(0, 2), Splitter("EXPANDING", 1, 1, 1, TRUE, <<1>>)>>,
         Grid("param_a", <<1, 2>>), [mape |-> Scorer(-1, Scores)], rm, TRUE) :
     rm \in {"mape", "r2"}}

\* the searches of the second thread, on other data and another grid: two
\* folds; three folds of which the last repeats the one before; a first fold
\* with a test window of two points, then a split that raises; a first fold
\* that raises; no fold at all
SecondFolds ==
  {<<arange(0, 3), Splitter("EXPANDING", 1, 1, 1, TRUE, <<1>>)>>,
   <<arange(0, 4), Splitter("EXPANDING", 1, 1, 1, TRUE, <<2>>)>>,
   <<arange(0, 3), Splitter("EXPANDING", 1, 1, 1, TRUE, <<1, 2>>)>>,
   <<arange(0, 2), Splitter("EXPANDING", 1, 1, 1, TRUE, <<1, 2>>)>>,
   <<arange(0, 2), Splitter("EXPANDING", 2, 1, 1, TRUE, <<1>>)>>}

SecondSearches ==
  {Entry(x, Grid("param_b", <<3>>), [mape |-> Scorer(-1, Scores)], "mape",
         TRUE) : x \in SecondFolds}

\* one thread searching alone, or two threads each with a search of its own
ConcurrentInit ==
  /\ \E a \in FirstSearches, b \in SecondSearches \cup {<<>>} :
       /\ Holds(a)
       /\ parked = b
  /\ thread = 1
  /\ filters = <<"ignore">>
  /\ shown = {}
  /\ CURRENT_EXPERIMENT = <<>>
  /\ experiments = <<>>
  /\ outcome = <<>>
  /\ NoCrossValidation

ConcurrentNext ==
  \/ Switch
  \/ FitRefitMetricError
  \/ Fit
  \/ FitAgain
  \/ FitAgainRefitMetricError
  \/ RunSearch
  \/ EvaluateCandidatesReturn
  \/ Select
  \/ Refit
  \/ RefitForecasterError
  \/ Finish
  \/ Next

ConcurrentSpec == ConcurrentInit /\ [][ConcurrentNext]_vars

\* ------------------------------------------- the module's current experiment
MaxApiCalls == 4

\* the functions decorated with check_if_global_is_not_none; the body of each
\* is return _CURRENT_EXPERIMENT.<the same name>(...)
GuardedFunctions ==
  {"compare_models", "create_model", "tune_model", "ensemble_model",
   "blend_models", "stack_models", "plot_model", "evaluate_model",
   "interpret_model", "predict_model", "finalize_model", "deploy_model",
   "save_model", "load_model", "automl", "pull", "models", "get_metrics",
   "add_metric", "remove_metric", "get_logs", "get_config", "set_config",
   "save_config", "load_config"}

\* tune_model passes groups=groups to the experiment, and groups is neither a
\* parameter of tune_model nor a global of the module: evaluating the
\* arguments of the call raises NameError
UndefinedNames(fn) == IF fn = "tune_model" THEN {"groups"} ELSE {}

\* _CURRENT_EXPERIMENT_EXCEPTION
NotSetMessage ==
  "_CURRENT_EXPERIMENT global variable is not set. Please run setup() first."

\* a TimeSeriesExperiment object: whether its setup ran and how it ended, and
\* the number of calls delegated to it
Experiment(state) == [setup |-> state, calls |-> 0]

\* what the caller passes to set_current_experiment: an experiment made
\* before (id >= 1), one made for the call (id = 0), or another object
Arguments ==
  {[kind |-> "experiment", id |-> k] : k \in 0..Len(experiments)}
    \cup {[kind |-> "other", id |-> 0]}

NoArgument == [kind |-> "none", id |-> 0]

\* isinstance(experiment, TimeSeriesExperiment)
IsExperiment(arg) == arg.kind = "experiment"

\* the decorator's check, made when the function is called: the global named
\* in _CURRENT_EXPERIMENT_DECORATOR_DICT is not None
CheckIfGlobalIsNotNone == CURRENT_EXPERIMENT # <<>>

\* the top-level call number n: what was called, with what, how it ended and
\* on which experiment it acted
Outcome(fn, arg, result, error, on) ==
  <<[n |-> Len(outcome) + (IF outcome = <<>> THEN 1 ELSE outcome[1].n),
     fn |-> fn, arg |-> arg, result |-> result, error |-> error, on |-> on]>>

ApiCalls == IF outcome = <<>> THEN 0 ELSE outcome[1].n

ExperimentInit ==
  /\ Imported
  /\ y = <<>>
  /\ cv = <<>>
  /\ pc = "idle"
  /\ cand = 0
  /\ n_splits = 0
  /\ n_folds = 0
  /\ i = 0
  /\ rolling_y_train = <<>>
  /\ y_test = <<>>
  /\ y_test_initial = <<>>
  /\ y_pred = <<>>
  /\ folds = <<>>
  /\ out = <<>>
  /\ err = NoError
  /\ candidate_params = <<>>
  /\ self = <<>>
  /\ strategy = <<>>
  /\ batch = 0
  /\ results = <<>>
  /\ all_candidate_params = <<>>
  /\ all_out = <<>>
  /\ models = <<>>
  /\ NoCrossValidation

\* everything but the current experiment
core == <<y, cv, pc, cand, n_splits, n_folds, i, rolling_y_train, y_test,
          y_test_initial, y_pred, folds, out, err, candidate_params, search,
          models, parallel, filters, shown, before, scheduler>>

\* setup(): exp = TimeSeriesExperiment(); set_current_experiment(exp);
\* return exp.setup(...), which returns
SetupReturns ==
  /\ ApiCalls < MaxApiCalls
  /\ experiments' = Append(experiments, Experiment("done"))
  /\ CURRENT_EXPERIMENT' = <<Len(experiments')>>
  /\ outcome' = Outcome("setup", NoArgument, "returned", "none", CURRENT_EXPERIMENT')
  /\ UNCHANGED core

\* setup(): exp.setup(...) raises
SetupRaises ==
  /\ ApiCalls < MaxApiCalls
  /\ experiments' = Append(experiments, Experiment("failed"))
  /\ CURRENT_EXPERIMENT' = <<Len(experiments')>>
  /\ outcome' = Outcome("setup", NoArgument, "raised", "SetupError", CURRENT_EXPERIMENT')
  /\ UNCHANGED core

\* set_current_experiment(experiment) with a TimeSeriesExperiment
SetCurrentExperiment ==
  /\ ApiCalls < MaxApiCalls
  /\ \E arg \in Arguments :
       /\ IsExperiment(arg)
       /\ experiments' = IF arg.id = 0 THEN Append(experiments, Experiment("none"))
                         ELSE experiments
       /\ CURRENT_EXPERIMENT' = <<IF arg.id = 0 THEN Len(experiments') ELSE arg.id>>
       /\ outcome' = Outcome("set_current_experiment", arg, "returned", "none",
                             CURRENT_EXPERIMENT')
  /\ UNCHANGED core

\* set_current_experiment(experiment) with another object: raise TypeError
SetCurrentExperimentTypeError ==
  /\ ApiCalls < MaxApiCalls
  /\ \E arg \in Arguments :
       /\ ~IsExperiment(arg)
       /\ outcome' = Outcome("set_current_experiment", arg, "raised", "TypeError", <<>>)
  /\ UNCHANGED <<CURRENT_EXPERIMENT, experiments, core>>

\* a guarded function is called while _CURRENT_EXPERIMENT is None: the
\* decorator raises with _CURRENT_EXPERIMENT_EXCEPTION
GuardedCallNotSet ==
  /\ ApiCalls < MaxApiCalls
  /\ ~CheckIfGlobalIsNotNone
  /\ \E fn \in GuardedFunctions :
       outcome' = Outcome(fn, NoArgument, "raised", NotSetMessage, <<>>)
  /\ UNCHANGED <<CURRENT_EXPERIMENT, experiments, core>>

\* a guarded function is called with an experiment installed and the
\* arguments of the delegated call cannot be evaluated: NameError, before
\* the method of the experiment is entered
GuardedCallNameError ==
  /\ ApiCalls < MaxApiCalls
  /\ CheckIfGlobalIsNotNone
  /\ \E fn \in GuardedFunctions :
       /\ UndefinedNames(fn) # {}
       /\ outcome' = Outcome(fn, NoArgument, "raised", "NameError", <<>>)
  /\ UNCHANGED <<CURRENT_EXPERIMENT, experiments, core>>

\* a guarded function is called with an experiment installed:
\* return _CURRENT_EXPERIMENT.<function>(...), which returns or raises
GuardedCall ==
  /\ ApiCalls < MaxApiCalls
  /\ CheckIfGlobalIsNotNone
  /\ \E fn \in GuardedFunctions, result \in {"returned", "raised"} :
       /\ UndefinedNames(fn) = {}
       /\ experiments' = [experiments EXCEPT ![CURRENT_EXPERIMENT[1]].calls = @ + 1]
       /\ outcome' = Outcome(fn, NoArgument, result,
                             IF result = "raised" THEN "MethodError" ELSE "none",
                             CURRENT_EXPERIMENT)
  /\ UNCHANGED <<CURRENT_EXPERIMENT, core>>

ExperimentNext ==
  \/ SetupReturns
  \/ SetupRaises
  \/ SetCurrentExperiment
  \/ SetCurrentExperimentTypeError
  \/ GuardedCallNotSet
  \/ GuardedCallNameError
  \/ GuardedCall

ExperimentSpec == ExperimentInit /\ [][ExperimentNext]_vars

\* ------------------------------------------ every call that runs fold tasks
\* the three calls that hand forecasters to _fit_and_score: a search (fit,
\* its tasks one after the other, its refit), one batch of
\* evaluate_candidates on parallel workers, and cross_validate_ts
Call ==
  IF self = <<>> THEN "cross_validate_ts"
  ELSE IF args # <<>> THEN "evaluate_candidates"
  ELSE "fit"

IsolationInit == SearchInit \/ ParallelInit \/ CVInit

\* each action in the calls whose code it is part of
IsolationNext ==
  \/ Call = "fit" /\ Construct
  \/ Call = "fit" /\ ConstructParamGridError
  \/ Call = "fit" /\ FitRefitMetricError
  \/ Call = "fit" /\ Fit
  \/ Call = "fit" /\ RunSearch
  \/ Call = "fit" /\ EvaluateCandidatesReturn
  \/ Call = "fit" /\ Select
  \/ Call = "fit" /\ Refit
  \/ Call = "fit" /\ RefitForecasterError
  \/ Call = "fit" /\ Finish
  \/ Call = "fit" /\ FitAndScore
  \/ Call = "fit" /\ FitAndScoreMismatch
  \/ Call = "fit" /\ FitAndScoreShapeError
  \/ Call = "fit" /\ FitAndScoreForecasterError
  \/ Call = "fit" /\ NoFits
  \/ Call # "cross_validate_ts" /\ EvaluateCandidates
  \/ Call # "cross_validate_ts" /\ CallGetFolds
  \/ Call # "cross_validate_ts" /\ Collected
  \/ FirstFold
  \/ FirstFoldIndexError
  \/ NextFold
  \/ StaleFold
  \/ SplitValueError
  \/ Exhausted
  \/ Call = "evaluate_candidates" /\ DispatchCandidate
  \/ Call = "evaluate_candidates" /\ Gather
  \/ Call = "evaluate_candidates" /\ NoTasksNoFits
  \/ Call # "fit" /\ TaskReturns
  \/ Call # "fit" /\ TaskMismatch
  \/ Call # "fit" /\ TaskShapeError
  \/ Call # "fit" /\ TaskForecasterError
  \/ Call # "fit" /\ Reraise
  \/ Call = "cross_validate_ts" /\ CrossValidate
  \/ Call = "cross_validate_ts" /\ Dispatch
  \/ Call = "cross_validate_ts" /\ UnpackError
  \/ Call = "cross_validate_ts" /\ Return

IsolationSpec == IsolationInit /\ [][IsolationNext]_vars

\* ------------------------------------------------------------ the properties
Cands == 1..NCandidates

\* get_folds of candidate c ran to exhaustion
Exhaustive(c) == c < cand

\* get_folds of the current candidate raised
GenRaised == pc = "failed" /\ err.in = "get_folds"

HeldOut == Len(y) - cv.initial_window

IsIncreasing(ix) == \A k \in 1..(Len(ix) - 1) : ix[k] < ix[k + 1]

\* C1: in every fold yielded by get_folds every train key is smaller than
\* every test key (max(train_index) < min(test_index)), for both policies.
FoldLeakageInvariant ==
  \A c \in Cands : \A k \in 1..Len(folds[c]) :
    \A a \in SeqSet(folds[c][k].train) : \A b \in SeqSet(folds[c][k].test) :
      a < b

FoldLeakageWitness ==
  \E c \in Cands : \E k \in 3..Len(folds[c]) :
    /\ cv.policy = "SLIDING"
    /\ folds[c][k].train # folds[c][k - 1].train
    /\ Len(folds[c][k].test) >= 2

\* C2: every fold yielded has exactly len(forecast_horizon) test keys, all of
\* them keys of the series: no fold with an incomplete test window is yielded.
HorizonLengthInvariant ==
  \A c \in Cands : \A k \in 1..Len(folds[c]) :
    /\ Len(folds[c][k].test) = Len(cv.fh)
    /\ SeqSet(folds[c][k].test) \subseteq SeqSet(y)
    /\ IsIncreasing(folds[c][k].test)

HorizonLengthWitness ==
  /\ GenRaised
  /\ Len(cv.fh) >= 2
  /\ Len(folds[cand]) = 1
  /\ folds[cand][1].test[Len(cv.fh)] = y[Len(y)]

\* C3 as claimed: whenever get_folds has ended (exhausted or raised) on a
\* series longer than initial_window, it has yielded floor((L - w) / s) folds.
FoldCountAsClaimed ==
  (HeldOut > 0) =>
    /\ \A c \in Cands : Exhaustive(c) =>
         Len(folds[c]) = HeldOut \div cv.step_length
    /\ GenRaised => Len(folds[cand]) = HeldOut \div cv.step_length

\* C3 amended: the count reported by _get_cv_n_folds is floor((L - w) / s)
\* whatever the horizon, and get_folds yields that many folds when it runs to
\* exhaustion; it raises IndexError before the first fold when the horizon
\* has more entries than the held-out region, and ValueError after the first
\* fold when a second fold is due and the horizon is empty or window_length +
\* max(fh) exceeds the held-out region; it runs to exhaustion otherwise.
FoldCountAmended ==
  LET n == HeldOut \div cv.step_length
      tooLong == n >= 1 /\ Len(cv.fh) > HeldOut
      noSplit == /\ n >= 2
                 /\ Len(cv.fh) <= HeldOut
                 /\ IF Len(cv.fh) = 0 THEN TRUE
                    ELSE cv.window_length + cv.fh[Len(cv.fh)] > HeldOut
  IN (HeldOut > 0) =>
       /\ pc # "start" => n_splits = n
       /\ pc \notin {"start", "next"} => n_folds = n
       /\ \A c \in Cands : Exhaustive(c) =>
            Len(folds[c]) = n /\ ~tooLong /\ ~noSplit
       /\ GenRaised =>
            \/ err.type = "IndexError" /\ tooLong /\ Len(folds[cand]) = 0
            \/ err.type = "ValueError" /\ noSplit /\ Len(folds[cand]) = 1

FoldCountWitness ==
  /\ Exhaustive(1)
  /\ cv.step_length >= 2
  /\ HeldOut % cv.step_length # 0
  /\ Len(folds[1]) >= 2

\* scenario A: 14 points, initial_window 10, step_length 1, horizon {1,2,3},
\* EXPANDING
ScenarioA ==
  /\ Len(y) = 14
  /\ cv.initial_window = 10
  /\ cv.step_length = 1
  /\ cv.fh = <<1, 2, 3>>
  /\ cv.policy = "EXPANDING"

ScenarioAFirstFold == [train |-> arange(0, 10), test |-> arange(10, 13)]

\* C4 as claimed: in scenario A get_folds yields exactly one fold, train
\* 0..9 and test 10..12.
ScenarioAAsClaimed ==
  ScenarioA =>
    \A c \in Cands : (Exhaustive(c) \/ (c = cand /\ GenRaised)) =>
      folds[c] = <<ScenarioAFirstFold>>

\* C4 amended: in scenario A the first fold yielded is train 0..9, test
\* 10..12, but the fold count is floor((14 - 10) / 1) = 4: with a splitter
\* window_length of 1 get_folds yields 4 folds, the last one train 0..10 and
\* test 11..13, and with a larger window_length it raises ValueError after
\* the first fold.
ScenarioAAmended ==
  ScenarioA =>
    /\ pc # "start" => n_splits = 4
    /\ \A c \in Cands : Len(folds[c]) >= 1 => folds[c][1] = ScenarioAFirstFold
    /\ \A c \in Cands : Exhaustive(c) =>
         /\ cv.window_length = 1
         /\ Len(folds[c]) = 4
         /\ folds[c][4] = [train |-> arange(0, 11), test |-> arange(11, 14)]
    /\ GenRaised =>
         /\ cv.window_length >= 2
         /\ err.type = "ValueError"
         /\ Len(folds[cand]) = 1

ScenarioAWitness == ScenarioA /\ Exhaustive(1) /\ Len(folds[1]) = 4

FoldCountBelowOne == HeldOut < cv.step_length

\* C5: when the fold count is below 1 (in particular initial_window >=
\* len(series)) or the horizon is empty, get_folds itself fails: it neither
\* runs to exhaustion nor yields a fold. Violated: get_folds validates
\* neither.
ConfigurationErrorAsClaimed ==
  (FoldCountBelowOne \/ Len(cv.fh) = 0) =>
    \A c \in Cands : ~Exhaustive(c) /\ folds[c] = <<>>

\* What the code does in the cases of C5 (holds): when the fold count is
\* below 1, get_folds yields an empty fold sequence without failing and it is
\* evaluate_candidates that fails (ValueError, no fits were performed), no
\* task having been run; an empty horizon is not rejected either: with a fold
\* count of at least 1 get_folds yields a first fold whose test index is empty.
ConfigurationErrorAmended ==
  /\ FoldCountBelowOne =>
       /\ \A c \in Cands : folds[c] = <<>>
       /\ out = <<>>
       /\ pc # "collected"
       /\ pc = "failed" => err = [in |-> "evaluate_candidates", type |-> "ValueError"]
  /\ (Len(cv.fh) = 0 /\ ~FoldCountBelowOne) =>
       /\ (cand > 1 \/ pc \in {"task", "failed"} \/ (pc = "gen" /\ i >= 1)) =>
            folds[1] # <<>>
       /\ \A c \in Cands : \A k \in 1..Len(folds[c]) :
            folds[c][k] = [train |-> arange(0, cv.initial_window), test |-> <<>>]

ConfigurationErrorWitness ==
  /\ pc = "failed"
  /\ err.in = "evaluate_candidates"
  /\ cv.initial_window >= Len(y)
  /\ Len(cv.fh) >= 1

\* C6: under the EXPANDING policy the train index of every fold is strictly
\* increasing (no duplicate, earliest first) and the train index of fold k is
\* a prefix of, hence included in, the train index of fold k + 1.
ExpandingWindowGrowth ==
  (cv.policy = "EXPANDING") =>
    \A c \in Cands : \A k \in 1..Len(folds[c]) :
      /\ IsIncreasing(folds[c][k].train)
      /\ k < Len(folds[c]) =>
           /\ SeqSet(folds[c][k].train) \subseteq SeqSet(folds[c][k + 1].train)
           /\ Len(folds[c][k].train) <= Len(folds[c][k + 1].train)
           /\ SubSeq(folds[c][k + 1].train, 1, Len(folds[c][k].train))
                = folds[c][k].train

ExpandingWindowWitness ==
  /\ cv.policy = "EXPANDING"
  /\ \E c \in Cands : \E k \in 3..Len(folds[c]) :
       /\ Len(folds[c][k].train) > Len(folds[c][k - 1].train)
       /\ Len(folds[c][k - 1].train) > Len(folds[c][k - 2].train)

\* C7: under the SLIDING policy the train index of every fold yielded has
\* exactly initial_window entries.
SlidingWindowLength ==
  (cv.policy = "SLIDING") =>
    \A c \in Cands : \A k \in 1..Len(folds[c]) :
      Len(folds[c][k].train) = cv.initial_window

SlidingWindowWitness ==
  /\ cv.policy = "SLIDING"
  /\ \E c \in Cands : \E k \in 2..Len(folds[c]) :
       /\ folds[c][k].train[1] > folds[c][k - 1].train[1]
       /\ cv.initial_window >= 2

\* C8: under the SLIDING policy, for consecutive folds k and k + 1, the train
\* window of fold k + 1 is the train window of fold k moved step_length keys
\* later (contiguous, same length) and its test keys are the horizon offsets
\* from its last train key.
SlidingShift ==
  (cv.policy = "SLIDING") =>
    \A c \in Cands : \A k \in 1..(Len(folds[c]) - 1) :
      LET a == folds[c][k]
          b == folds[c][k + 1]
      IN /\ Len(b.train) = Len(a.train)
         /\ \A j \in 1..Len(b.train) : b.train[j] = a.train[j] + cv.step_length
         /\ b.test = [j \in 1..Len(cv.fh) |-> b.train[Len(b.train)] + cv.fh[j]]

\* C9: consuming get_folds again on the same series and splitter yields the
\* same folds in the same order (every candidate is evaluated on the folds of
\* the first one), and no step modifies the series or the splitter.
FoldsAgree ==
  \A c \in Cands :
    /\ Len(folds[c]) <= Len(folds[1])
    /\ folds[c] = SubSeq(folds[1], 1, Len(folds[c]))
    /\ Exhaustive(c) => folds[c] = folds[1]

RoundTripDeterminism == [][y' = y /\ cv' = cv /\ FoldsAgree']_vars

RoundTripWitness ==
  /\ cand > Len(candidate_params)
  /\ Len(folds[NCandidates]) >= 3
  /\ folds[NCandidates][3] # folds[NCandidates][2]

\* C10: a task returns scores only when the index of the prediction equals
\* the test index of its fold, entry by entry (stated for the folds of a
\* non-empty horizon).
ScoredOnlyWhenAligned ==
  (pc = "gen" /\ i >= 1 /\ Len(cv.fh) >= 1) => y_pred = y_test

\* ------------------------------------------------- the properties of a search
\* a task of the search raised
TaskRaised == pc = "failed" /\ err.in = "_fit_and_score"

\* the result attributes are as __init__ left them
NoResultsExposed ==
  /\ self.cv_results_ = <<>>
  /\ self.best_params_ = [n \in {} |-> 0]
  /\ self.best_index_ = <<>>
  /\ self.best_score_ = <<>>
  /\ self.best_forecaster_ = <<>>
  /\ self.scorer_ = <<>>
  /\ self.n_splits_ = <<>>
  /\ ~self.is_fitted

\* no forecaster was fit on the whole series
NoRefit ==
  /\ self.refit_time_ = <<>>
  /\ \A f \in 1..Len(models) : \A k \in 1..Len(models[f].fits) :
       models[f].fits[k] # y

\* C11: when a task of the search raises, fit ends with that error: nothing
\* is selected or refit, and the search object exposes no results table
\* (cv_results_ is still the empty dictionary of __init__), even when earlier
\* batches of the same call were already formatted.
FailFastSearch == TaskRaised => NoResultsExposed /\ NoRefit

FailFastSearchWitness ==
  /\ TaskRaised
  /\ Len(results) = 1
  /\ Len(out) >= 1

\* ---------------------------------------- the properties of cross_validate_ts
Metrics == DOMAIN GetMetricsDict(args.scoring)

\* C12: cross_validate_ts hands one task per yielded fold to Parallel, in the
\* order of the folds, and the array it returns for a metric has one entry
\* per fold, the k-th being the score the task of fold k computed, whatever
\* the order in which the tasks completed.
FoldOrderPreserved ==
  /\ Len(tasks) <= Len(folds[1]) /\ Len(folds[1]) <= Len(tasks) + 1
  /\ \A k \in 1..Len(tasks) :
       /\ tasks[k].fold = k - 1
       /\ tasks[k].train = folds[1][k].train
       /\ tasks[k].test = folds[1][k].test
  /\ test_scores # <<>> =>
       \A m \in Metrics :
         /\ Len(test_scores[1][m]) = Len(folds[1])
         /\ \A k \in 1..Len(folds[1]) :
              test_scores[1][m][k] = tasks[k].scores[m]

FoldOrderWitness ==
  /\ test_scores # <<>>
  /\ Len(tasks) >= 3
  /\ completed[1] = 2 /\ completed[2] = 3
  /\ \E m \in Metrics : tasks[1].scores[m] # tasks[2].scores[m]

\* C13: when a task of cross_validate_ts raises (fit, predict, the index
\* check or a scorer), the call neither returns nor substitutes a score: it
\* ends with the error of a task that raised; and when it returns, every
\* yielded fold has its own computed score, whatever error_score is.
FailFastCrossValidation ==
  /\ (\E k \in 1..Len(tasks) : tasks[k].state = "raised") =>
       /\ pc # "done"
       /\ test_scores = <<>>
  /\ (pc = "failed" /\ err.in = "_fit_and_score") =>
       /\ test_scores = <<>>
       /\ \E k \in 1..Len(tasks) :
            tasks[k].state = "raised" /\ tasks[k].error = err.type
  /\ test_scores # <<>> =>
       \A m \in Metrics :
         /\ Len(test_scores[1][m]) = Len(folds[1])
         /\ \A k \in 1..Len(folds[1]) :
              /\ tasks[k].state = "done"
              /\ test_scores[1][m][k] \in GetMetricsDict(args.scoring)[m].values
              /\ test_scores[1][m][k] # args.error_score

FailFastCrossValidationWitness ==
  /\ pc = "failed" /\ err.in = "_fit_and_score"
  /\ err.type = "ValueError"
  /\ args.error_score = 0
  /\ \E k \in 1..Len(tasks) : tasks[k].state = "done"
  /\ \E k \in 1..Len(tasks) : tasks[k].state = "pending"

\* C14: fit checks the refit metric first: when refit_metric is not a key of
\* the scorers, fit raises ValueError before _run_search is called, so no
\* candidate list exists, no fold was yielded, no task ran and the result
\* attributes are as __init__ left them; and a search whose refit metric is
\* missing never gets past that check.
RefitMetricValidatedFirst ==
  /\ (pc = "failed" /\ err.in = "fit") =>
       /\ err.type = "ValueError"
       /\ self.refit_metric \notin DOMAIN GetMetricsDict(self.scoring)
       /\ candidate_params = <<>> /\ all_candidate_params = <<>>
       /\ folds = <<>> /\ out = <<>> /\ all_out = <<>>
       /\ Len(models) = 2
       /\ results = <<>>
       /\ NoResultsExposed /\ NoRefit
  /\ self.refit_metric \notin DOMAIN GetMetricsDict(self.scoring) =>
       \/ pc \in {"new", "constructed"}
       \/ pc = "failed" /\ err.in \in {"__init__", "fit"}

RefitMetricWitness ==
  /\ pc = "failed" /\ err.in = "fit"
  /\ strategy.kind = "grid"
  /\ Len(ParameterGrid(self.param_grid)) >= 2
  /\ GetCvNFolds(y, cv) >= 1

\* mean a is strictly better than mean b for a scorer of the given sign
Better(sign, a, b) == IF sign = 1 THEN MeanLess(b, a) ELSE MeanLess(a, b)

\* the columns of metric m in the table built so far
Column(m) == results[1].test[m]

NumRows == Len(results[1].params)

\* C15: in the results table, for every metric, no candidate has a mean
\* strictly better (greater for a scorer of sign 1, lower otherwise) than a
\* candidate of rank 1, and at least one candidate has rank 1.
RankOneIsBest ==
  results # <<>> =>
    \A m \in DOMAIN self.scoring :
      /\ \E c \in 1..NumRows : Column(m).rank[c] = 1
      /\ \A c \in 1..NumRows :
           Column(m).rank[c] = 1 =>
             \A d \in 1..NumRows :
               ~Better(self.scoring[m].sign, Column(m).mean[d], Column(m).mean[c])

RankOneWitness ==
  /\ pc = "done"
  /\ n_splits >= 2
  /\ \E m \in DOMAIN self.scoring :
       /\ self.scoring[m].sign = 1
       /\ Column(m).rank[1] = 2
       /\ Column(m).rank[2] = 1

\* C16: candidates whose means on a metric are equal have the same rank,
\* and the rank of a candidate is one plus the number of candidates with a
\* strictly better mean (ranks 1, 1, 3 for two tied best candidates).
TiesShareMinRank ==
  results # <<>> =>
    \A m \in DOMAIN self.scoring : \A c \in 1..NumRows :
      /\ Column(m).rank[c] =
           1 + Cardinality({d \in 1..NumRows :
                 Better(self.scoring[m].sign, Column(m).mean[d], Column(m).mean[c])})
      /\ \A d \in 1..NumRows :
           MeanEqual(Column(m).mean[c], Column(m).mean[d]) =>
             Column(m).rank[c] = Column(m).rank[d]

TiesWitness ==
  /\ pc = "done"
  /\ NumRows >= 3
  /\ \E m \in DOMAIN self.scoring :
       /\ Column(m).rank[1] = 1
       /\ Column(m).rank[2] = 3
       /\ Column(m).rank[3] = 1

\* best_index_ is assigned
Selected == self.best_index_ # <<>>

BestRow == self.best_index_[1] + 1

\* C17: best_index_ is the first position whose rank on the refit metric is
\* minimal, best_params_ is the parameter dictionary of that row and
\* best_score_ is its mean on the refit metric.
SelectionIsFirstBest ==
  Selected =>
    /\ BestRow \in 1..NumRows
    /\ \A d \in 1..NumRows :
         Column(self.refit_metric).rank[BestRow] <= Column(self.refit_metric).rank[d]
    /\ \A d \in 1..(BestRow - 1) :
         Column(self.refit_metric).rank[BestRow] < Column(self.refit_metric).rank[d]
    /\ self.best_params_ = results[1].params[BestRow]
    /\ self.best_score_ = <<Column(self.refit_metric).mean[BestRow]>>

SelectionWitness ==
  /\ pc = "done"
  /\ NumRows >= 3
  /\ self.best_index_ = <<1>>
  /\ Column(self.refit_metric).rank[3] = 1

\* every submitted candidate has a score for every fold
AllScored ==
  /\ batch > Len(Batches(self, strategy))
  /\ Len(all_out) = Len(all_candidate_params) * n_splits

\* C18: with refit set, once every candidate is scored and the best one is
\* selected, best_forecaster_ is a new clone (neither the forecaster of the
\* search, nor the base clone, nor the clone of a task) carrying best_params_
\* and fit exactly once, on the whole series; no other forecaster is fit on
\* the whole series, and refit_time_ is recorded.
RefitOnceOnWholeSeries ==
  /\ (pc = "refit" \/ self.refit_time_ # <<>>) => self.refit /\ Selected /\ AllScored
  /\ (pc = "done" /\ self.refit) =>
       /\ self.best_forecaster_ = <<Len(models)>>
       /\ Len(models) = 3 + Len(all_out)
       /\ models[Len(models)].params = self.best_params_
       /\ models[Len(models)].fits = <<y>>
       /\ \A f \in 1..(Len(models) - 1) : \A k \in 1..Len(models[f].fits) :
            models[f].fits[k] # y
       /\ self.refit_time_ # <<>>

RefitWitness ==
  /\ pc = "done" /\ self.refit
  /\ NumRows >= 2 /\ n_splits >= 2
  /\ self.best_index_ = <<1>>

\* C19: a call of evaluate_candidates runs one task per fold for the
\* candidates of that call only, appends the candidates and the task results
\* to those accumulated by earlier calls and rebuilds the table over all of
\* them: the rows are the candidates in the order of submission, the rows of
\* earlier calls keep their scores and means, and the new rows hold the
\* scores of the new tasks.
IncrementalExtension ==
  [][(pc = "next" /\ pc' = "collected") =>
       /\ Len(out) = Len(candidate_params) * n_splits
       /\ \A t \in 1..Len(out) :
            /\ out[t].cand = ((t - 1) \div n_splits) + 1
            /\ out[t].fold = (t - 1) % n_splits
       /\ all_candidate_params' = all_candidate_params \o candidate_params
       /\ results'[1].params = all_candidate_params'
       /\ \A m \in DOMAIN self.scoring :
            /\ Len(results'[1].test[m].split) = Len(all_candidate_params')
            /\ \A c \in 1..Len(all_candidate_params') :
                 IF c <= Len(all_candidate_params)
                 THEN /\ results'[1].test[m].split[c] = results[1].test[m].split[c]
                      /\ results'[1].test[m].mean[c] = results[1].test[m].mean[c]
                 ELSE results'[1].test[m].split[c] =
                        [k \in 1..n_splits |->
                           out[(c - Len(all_candidate_params) - 1) * n_splits + k].scores[m]]
    ]_vars

IncrementalWitness ==
  /\ pc = "collected"
  /\ batch = 2
  /\ NumRows >= 3
  /\ Len(candidate_params) < NumRows
  /\ \E m \in DOMAIN self.scoring : Column(m).mean[1] # Column(m).mean[NumRows]

\* the combinations of a grid: one value of its list for every parameter
Combinations(param_grid) ==
  {f \in [DOMAIN param_grid ->
            UNION {SeqSet(param_grid[n].values) : n \in DOMAIN param_grid}] :
     \A n \in DOMAIN param_grid : f[n] \in SeqSet(param_grid[n].values)}

GridSearch == strategy.kind = "grid"

\* C20: the table of a grid search has exactly one row for every combination
\* of the grid (one value per parameter, the lists holding distinct values)
\* and no other row, every row with a score for every fold; and a grid with
\* a value that is not a list, or with an empty list, makes the constructor
\* raise ValueError, so that fit never starts.
GridEnumeration ==
  GridSearch =>
    /\ ~CheckParamGrid(self.param_grid) =>
         \/ pc = "new"
         \/ /\ pc = "failed" /\ err = [in |-> "__init__", type |-> "ValueError"]
            /\ Len(models) = 1 /\ results = <<>> /\ NoResultsExposed
    /\ results # <<>> =>
         /\ \A f \in Combinations(self.param_grid) :
              Cardinality({c \in 1..NumRows : results[1].params[c] = f}) = 1
         /\ \A c \in 1..NumRows :
              results[1].params[c] \in Combinations(self.param_grid)
         /\ \A m \in DOMAIN self.scoring : \A c \in 1..NumRows :
              Len(Column(m).split[c]) = n_splits

GridEnumerationWitness ==
  /\ GridSearch
  /\ pc = "done"
  /\ NumRows = 4
  /\ results[1].params[2]["param_a"] = 1 /\ results[1].params[2]["param_b"] = 2

\* position of the task of candidate c (from 1) and fold k (from 1) in the batch
TaskOf(c, k) == (c - 1) * n_splits + k

\* C21: evaluate_candidates dispatches one batch of exactly
\* len(candidates) * n_splits tasks, candidate-major and fold-minor, and in
\* the table the entry of row c and split k of every metric is the score the
\* task of candidate c on fold k computed, whatever the completion order.
FlattenedBatchRegrouped ==
  pc = "collected" =>
    /\ Len(tasks) = Len(candidate_params) * n_splits
    /\ \A c \in 1..Len(candidate_params) : \A k \in 1..n_splits :
         /\ tasks[TaskOf(c, k)].cand = c
         /\ tasks[TaskOf(c, k)].fold = k - 1
         /\ tasks[TaskOf(c, k)].parameters = <<candidate_params[c]>>
         /\ \A m \in DOMAIN self.scoring :
              Column(m).split[c][k] = tasks[TaskOf(c, k)].scores[m]

\* two candidates on two folds, the tasks completed out of dispatch order and
\* computed different scores
FlattenedBatchWitness ==
  /\ pc = "collected"
  /\ Len(candidate_params) = 2 /\ n_splits = 2
  /\ completed[1] = 2 /\ completed[2] = 1
  /\ \E m \in DOMAIN self.scoring :
       /\ tasks[1].scores[m] # tasks[2].scores[m]
       /\ tasks[2].scores[m] # tasks[3].scores[m]

\* the state of the search call
Phase ==
  CASE pc = "new" -> "NEW"
    [] pc = "constructed" -> "CONFIGURED"
    [] pc \in {"run_search", "start", "gen", "task", "next", "collected"} -> "SEARCHING"
    [] pc = "refit" -> "SCORED"
    [] pc = "finish" /\ self.refit_time_ = <<>> -> "SCORED"
    [] pc = "finish" /\ self.refit_time_ # <<>> -> "REFIT"
    [] pc = "done" -> "DONE"
    [] pc = "failed" -> "FAILED"

PhaseStep(from, to) ==
  \/ from = to
  \/ from = "NEW" /\ to = "CONFIGURED"
  \/ from = "CONFIGURED" /\ to = "SEARCHING"
  \/ from = "SEARCHING" /\ to = "SCORED"
  \/ from = "SCORED" /\ to = "REFIT" /\ self.refit
  \/ from = "SCORED" /\ to = "DONE" /\ ~self.refit
  \/ from = "REFIT" /\ to = "DONE"
  \/ from \notin {"DONE", "FAILED"} /\ to = "FAILED"

Published == self.is_fitted \/ self.cv_results_ # <<>>

\* C22: a search call moves only along CONFIGURED -> SEARCHING -> SCORED ->
\* (REFIT, only with refit set) -> DONE; the refit happens only once every
\* candidate is scored and the best one selected; the fitted flag and the
\* table are published only in DONE; an error moves the call to FAILED, which
\* it never leaves.
SearchStateMachine ==
  /\ [](Published => Phase = "DONE")
  /\ [](err # NoError <=> Phase = "FAILED")
  /\ [](Phase \in {"SCORED", "REFIT"} => Selected /\ AllScored)
  /\ [][/\ PhaseStep(Phase, Phase')
        /\ Phase' = "DONE" => Published'
        /\ (self'.refit_time_ # self.refit_time_ \/ Phase' = "REFIT") =>
             Phase = "SCORED" /\ Phase' = "REFIT"]_vars

\* a call with refit that went through every state, over two candidates
SearchStateMachineWitness ==
  /\ Phase = "DONE" /\ self.refit /\ self.refit_time_ # <<>>
  /\ NumRows = 2 /\ Published

\* a call that failed in the refit, after the selection
SearchStateMachineFailedWitness ==
  /\ Phase = "FAILED" /\ Selected /\ ~Published

\* the forecaster instance task k was given, as it is now
Given(k) == models[tasks[k].model]

\* the call of _fit_and_score for task k returned
Ran(k) == tasks[k].state = "done"

\* C23 as stated: the instance passed to _fit_and_score is never configured
\* or fitted by the call (it is still as the caller passed it: a clone of the
\* base forecaster, without a fit).
GivenInstanceUntouched ==
  \A k \in 1..Len(tasks) : Ran(k) => Given(k) = Forecaster(models[2].params)

\* C23 (amended): _fit_and_score configures the instance it is given with the
\* task's parameters and fits it once, on the task's training window; the
\* instance is a clone the caller made for that task alone, and the
\* forecaster of the search and its base clone are neither configured nor
\* fitted.
GivenInstanceFittedInPlace ==
  /\ \A k \in 1..Len(tasks) :
       /\ Ran(k) => Given(k) = [params |-> tasks[k].parameters[1],
                                 fits |-> <<tasks[k].train>>]
       /\ tasks[k].state = "pending" => Given(k) = Forecaster(models[2].params)
       /\ tasks[k].model > 2
       /\ \A j \in 1..Len(tasks) : j # k => tasks[j].model # tasks[k].model
  /\ models[1] = Forecaster(<<>>)
  /\ models[2] = Forecaster(<<>>)

\* a task that ran with parameters to set, next to one that has not run yet
GivenInstanceWitness ==
  \E k, j \in 1..Len(tasks) :
    /\ Ran(k) /\ ~Ran(j)
    /\ tasks[k].parameters = <<candidate_params[tasks[k].cand]>>
    /\ Len(tasks[k].train) >= 1

\* the forecaster the tasks of the call are cloned from: the forecaster
\* argument of cross_validate_ts, the base clone of a search
Origin == IF Call = "cross_validate_ts" THEN 1 ELSE 2

\* what _fit_and_score leaves of the instance a task was given
FittedBy(task, instance) ==
  [params |-> IF task.parameters = <<>> THEN instance.params
              ELSE task.parameters[1],
   fits |-> <<task.train>>]

\* C24: across any call of cross_validate_ts or of a search, refit included,
\* the caller's forecaster and the base clone are never configured or fitted
\* and the series is never modified; every task works on a new clone of its
\* own (no two tasks are given the same instance, an instance is fitted at
\* most once, and an instance changes only when the one task that was given
\* it runs), and only the refit fits another existing instance, the clone
\* made for the best parameters.
TaskIsolation ==
  /\ [](/\ models[1] = Forecaster(<<>>)
        /\ (Call # "cross_validate_ts" /\ Len(models) >= 2) =>
             models[2] = Forecaster(<<>>)
        /\ \A k \in 1..Len(models) : Len(models[k].fits) <= 1
        /\ \A k \in 1..Len(tasks) :
             /\ tasks[k].model > Origin
             /\ tasks[k].state = "pending" =>
                  Given(k) = Forecaster(models[Origin].params)
             /\ \A j \in 1..Len(tasks) :
                  j # k => tasks[j].model # tasks[k].model)
  /\ [][/\ y' = y
        /\ Len(models') >= Len(models)
        /\ (Call = "fit" /\ Len(out') > Len(out)) =>
             /\ Len(models') = Len(models) + 1
             /\ models'[Len(models')] = [params |-> candidate_params[cand],
                                         fits |-> <<rolling_y_train>>]
        /\ \A k \in 1..Len(models) :
             models'[k] # models[k] =>
               IF Call = "fit"
               THEN /\ pc = "refit" /\ self.best_forecaster_ = <<k>> /\ k > 2
                    /\ models[k] = Forecaster(self.best_params_)
                    /\ models'[k] = [models[k] EXCEPT !.fits = <<y>>]
               ELSE \E j \in 1..Len(tasks) :
                      /\ tasks[j].model = k
                      /\ tasks[j].state = "pending"
                      /\ tasks'[j].state # "pending"
                      /\ models'[k] = FittedBy(tasks[j], models[k])]_vars

\* a search: two tasks of one candidate have run on two different training
\* windows and the best forecaster has been refit
TaskIsolationWitness ==
  /\ Call = "fit"
  /\ pc = "done" /\ self.refit
  /\ \E j, k \in 3..Len(models) :
       /\ j # k /\ models[j].params = models[k].params
       /\ models[j].fits # models[k].fits
       /\ models[j].fits # <<>> /\ models[k].fits # <<>>
       /\ self.best_forecaster_ \notin {<<j>>, <<k>>}

\* cross_validate_ts: two tasks have fitted their clones on two different
\* training windows, out of their order of dispatch, and a third is pending
TaskIsolationCrossValidateWitness ==
  /\ Call = "cross_validate_ts"
  /\ Len(tasks) >= 3 /\ Len(completed) = 2
  /\ completed[1] > completed[2]
  /\ Given(completed[1]).fits # Given(completed[2]).fits
  /\ \E k \in 1..Len(tasks) : tasks[k].state = "pending"

\* a parallel batch: two tasks of two candidates have run side by side on
\* the same training window
TaskIsolationBatchWitness ==
  /\ Call = "evaluate_candidates"
  /\ \E j, k \in 1..Len(tasks) :
       /\ Ran(j) /\ Ran(k)
       /\ tasks[j].cand # tasks[k].cand
       /\ Given(j).fits = Given(k).fits
       /\ Given(j).params # Given(k).params

\* the table holds a non-finite mean
NonFiniteTable == results # <<>> /\ NonFiniteKeys(results[1]) # {}

\* the search went on after a table with a non-finite mean: every row has a
\* rank on every metric and, once the call is done, a best candidate
NonFiniteNonFatal ==
  NonFiniteTable =>
    /\ \A m \in DOMAIN results[1].test : \A c \in 1..NumRows :
         Column(m).rank[c] \in 1..NumRows
    /\ pc = "done" => Selected /\ Published
    /\ pc = "failed" => err.in \in {"get_folds", "_fit_and_score", "refit"}

\* C25: when the mean of some candidate on a test_ metric is non-finite, a
\* warning for that metric is shown to the caller, and the search goes on to
\* its table, its ranks and its best candidate.
NonFiniteMeansWarned ==
  NonFiniteTable =>
    /\ \A m \in NonFiniteKeys(results[1]) : \E w \in shown : w.key = m
    /\ NonFiniteNonFatal

\* with a filter of the caller in front, the warning is shown
NonFiniteShownWhenEnabled ==
  (NonFiniteTable /\ filters[1] = "always") =>
    \A m \in NonFiniteKeys(results[1]) : \E w \in shown : w.key = m

\* a search that is done with a non-finite mean in its table
NonFiniteDone ==
  /\ pc = "done" /\ NonFiniteTable /\ NumRows = 2
  /\ \E c \in 1..NumRows : ~NonFinite(Column(self.refit_metric).mean[c])

\* the table of the call of frame f holds the candidates of the grid of the
\* call's own object and, for each of them, the scores of the tasks this
\* call ran on the folds of its own series, and nothing else
OwnTable(f) ==
  /\ f.results[1].params = ParameterGrid(f.self.param_grid)
  /\ f.results[1].params = f.candidate_params
  /\ f.n_splits = GetCvNFolds(f.y, f.cv)
  /\ Len(f.all_out) = Len(f.candidate_params) * f.n_splits
  /\ \A m \in DOMAIN f.self.scoring :
       /\ Len(f.results[1].test[m].split) = Len(f.candidate_params)
       /\ \A c \in 1..Len(f.candidate_params) : \A k \in 1..f.n_splits :
            f.results[1].test[m].split[c][k] =
              f.out[(c - 1) * f.n_splits + k].scores[m]

\* the call of frame f has published its own table and the candidate that
\* ranks first in it
OwnSelection(f) ==
  /\ f.self.cv_results_ = f.results
  /\ Len(f.results[1].params) = Len(f.candidate_params)
  /\ f.self.best_index_ =
       <<ArgMin(f.results[1].test[f.self.refit_metric].rank) - 1>>
  /\ f.self.best_params_ =
       ParameterGrid(f.self.param_grid)[f.self.best_index_[1] + 1]

Independent(f) ==
  /\ f.pc = "collected" => OwnTable(f)
  /\ f.pc = "done" => OwnSelection(f)

\* C26: two searches on different objects and data that run in two threads,
\* their steps interleaved in any order, do not affect each other: each
\* builds its table from its own candidates and the scores of its own tasks
\* and selects its best candidate in that table, and a step of one leaves
\* the frame of the other as it was (a switch of threads exchanging the two
\* frames intact); and a call of fit on an object that was searched before
\* builds its table from the candidates and task scores of this call only
\* (nothing accumulates across calls).
Reentrant ==
  /\ [](/\ Independent(Frame)
        /\ parked # <<>> => Independent(parked))
  /\ [][IF thread' # thread
        THEN parked' = Frame /\ Frame' = parked
        ELSE parked' = parked]_vars

\* two threads: the first has built the table of its search, with two rows,
\* while the search of the second is between two of its tasks
ReentrantWitness ==
  /\ thread = 1 /\ parked # <<>>
  /\ pc = "collected" /\ Len(results[1].params) = 2
  /\ parked.pc = "gen" /\ Len(parked.out) = 1 /\ parked.n_folds >= 2
  /\ parked.y # y /\ parked.self.param_grid # self.param_grid

\* one thread: the second call on an object whose first call completed has
\* built its table, with scores other than those of the first call
ReentrantSecondCallWitness ==
  /\ parked = <<>>
  /\ Len(before) = 2 /\ before[2].is_fitted
  /\ pc = "collected" /\ NumRows = 2
  /\ results # before[2].cv_results_

\* the search object as it was when the current call of fit began
AtEntry == before[Len(before)]

RefitFailed == pc = "failed" /\ err.in = "refit"

\* C29: cv_results_ and the fitted flag (with scorer_ and n_splits_) are
\* written only by the last steps of a call that succeeds, best_index_,
\* best_score_, best_params_ and best_forecaster_ before the refit: when the
\* refit fails, the best_* attributes hold the values of this call and
\* cv_results_ and the fitted flag what they held at the entry of the call.
PartialStateOnFailure ==
  /\ (Len(before) >= 1 /\ pc # "done") =>
       /\ self.cv_results_ = AtEntry.cv_results_
       /\ self.is_fitted = AtEntry.is_fitted
       /\ self.scorer_ = AtEntry.scorer_
       /\ self.n_splits_ = AtEntry.n_splits_
  /\ pc = "done" => self.cv_results_ = results /\ self.is_fitted
  /\ RefitFailed =>
       LET table == results[1].test[self.refit_metric]
           best == ArgMin(table.rank)
       IN /\ self.best_index_ = <<best - 1>>
          /\ self.best_score_ = <<table.mean[best]>>
          /\ self.best_params_ = results[1].params[best]
          /\ self.best_forecaster_ = <<Len(models)>>
          /\ models[Len(models)].params = self.best_params_
          /\ self.refit_time_ = AtEntry.refit_time_

\* the refit of the second call failed on an object whose first call
\* succeeded with another best candidate
PartialStateWitness ==
  /\ RefitFailed /\ Len(before) = 2 /\ AtEntry.is_fitted
  /\ self.best_params_ # AtEntry.best_params_
  /\ self.best_forecaster_ # AtEntry.best_forecaster_
  /\ self.cv_results_ # results

\* the refit of the first call failed: the object is still unfitted, without
\* a table
PartialStateFreshWitness ==
  /\ RefitFailed /\ Len(before) = 1
  /\ self.cv_results_ = <<>> /\ ~self.is_fitted /\ Selected

\* the forecaster object best_forecaster_ refers to
BestForecaster == models[self.best_forecaster_[1]]

\* C28: after a successful search, best_forecaster_ is a clone of its own
\* carrying best_params_; it has been fit (once, on the whole series, with a
\* refit time recorded) if and only if refit was requested, and without
\* refit it is unfitted and no refit time is recorded.
WithoutRefitUnfitted ==
  pc = "done" =>
    /\ self.best_forecaster_[1] > 2
    /\ BestForecaster.params = self.best_params_
    /\ BestForecaster.fits = (IF self.refit THEN <<y>> ELSE <<>>)
    /\ (self.refit_time_ # <<>>) <=> self.refit
    /\ (BestForecaster.fits # <<>>) <=> self.refit

\* a search without refit is done, with a best candidate that sets a parameter
WithoutRefitWitness ==
  /\ pc = "done" /\ ~self.refit
  /\ DOMAIN self.best_params_ # {}
  /\ NumRows = 2 /\ self.best_index_ = <<1>>
  /\ BestForecaster.fits = <<>>

\* fold number k (from 1) of candidate c is the fold before it, repeated,
\* whenever the splitter has no split number k - 2 on the held-out region
StaleFoldsRepeat ==
  \A c \in Cands : \A k \in 2..Len(folds[c]) :
    ~HasSplit(cv, HeldOut, k - 2) => folds[c][k] = folds[c][k - 1]

\* C27 as stated: get_folds always yields exactly the number of folds of the
\* formula, whether it ends by exhaustion or by raising, and a fold without
\* a split of its own repeats the fold before it.
StaleRepetitionAsClaimed ==
  /\ \A c \in Cands :
       (Exhaustive(c) \/ (c = cand /\ GenRaised)) =>
         Len(folds[c]) = Max(GetCvNFolds(y, cv), 0)
  /\ StaleFoldsRepeat

\* C27 (amended): get_folds yields exactly the number of folds of the formula
\* when it runs to exhaustion (it raises before the first fold or after it in
\* the cases of C3), and a fold i >= 1 for which the splitter has no (i-1)-th
\* split on the held-out region is identical, train and test, to fold i - 1.
StaleRepetition ==
  /\ \A c \in Cands : Exhaustive(c) => Len(folds[c]) = Max(GetCvNFolds(y, cv), 0)
  /\ \A c \in Cands : Len(folds[c]) <= Max(GetCvNFolds(y, cv), 0)
  /\ StaleFoldsRepeat

\* a generator ran to exhaustion and its last two folds are the same, after
\* folds that advanced
StaleRepetitionWitness ==
  \E c \in Cands :
    /\ Exhaustive(c) /\ Len(folds[c]) >= 3
    /\ folds[c][Len(folds[c])] = folds[c][Len(folds[c]) - 1]
    /\ folds[c][2] # folds[c][1]
    /\ ~HasSplit(cv, HeldOut, Len(folds[c]) - 2)

\* the top-level call made by the step from this state to the next
Called == outcome'[1]

\* a step of the protocol, with fns the guarded functions that delegate
ProtocolStep(fns) ==
  outcome' # outcome =>
    /\ (Called.fn \in GuardedFunctions /\ CURRENT_EXPERIMENT = <<>>) =>
         /\ Called.result = "raised" /\ Called.error = NotSetMessage
         /\ experiments' = experiments /\ CURRENT_EXPERIMENT' = <<>>
    /\ (Called.fn \in fns /\ CURRENT_EXPERIMENT # <<>>) =>
         /\ Called.on = CURRENT_EXPERIMENT
         /\ CURRENT_EXPERIMENT' = CURRENT_EXPERIMENT
         /\ Len(experiments') = Len(experiments)
         /\ \A k \in 1..Len(experiments) :
              experiments'[k].calls =
                experiments[k].calls + (IF <<k>> = CURRENT_EXPERIMENT THEN 1 ELSE 0)
    /\ Called.fn = "setup" =>
         /\ Len(experiments') = Len(experiments) + 1
         /\ CURRENT_EXPERIMENT' = <<Len(experiments')>>
         /\ experiments'[Len(experiments')].setup =
              (IF Called.result = "raised" THEN "failed" ELSE "done")
    /\ (Called.fn = "set_current_experiment" /\ ~IsExperiment(Called.arg)) =>
         /\ Called.result = "raised" /\ Called.error = "TypeError"
         /\ CURRENT_EXPERIMENT' = CURRENT_EXPERIMENT
         /\ experiments' = experiments
    /\ (Called.fn = "set_current_experiment" /\ IsExperiment(Called.arg)) =>
         /\ Called.result = "returned"
         /\ CURRENT_EXPERIMENT' = Called.on
         /\ Called.arg.id >= 1 => CURRENT_EXPERIMENT' = <<Called.arg.id>>
    /\ CURRENT_EXPERIMENT' # CURRENT_EXPERIMENT =>
         Called.fn \in {"setup", "set_current_experiment"}

\* C30: a guarded function called while no experiment is installed raises
\* (with the not-set message) and changes nothing; setup makes a brand-new
\* experiment current whether its setup returns or raises; for an object
\* that is not an experiment set_current_experiment raises TypeError and
\* leaves the current experiment as it was, and for an experiment it makes
\* it current; every guarded call with an experiment installed is delegated
\* to the current one, which is the one installed last, and to no other.
CurrentExperimentProtocol == [][ProtocolStep(GuardedFunctions)]_vars

\* the protocol holds of every guarded function but tune_model, which with an
\* experiment installed raises NameError and delegates nothing
ProtocolButTuneModel ==
  [][/\ ProtocolStep(GuardedFunctions \ {"tune_model"})
     /\ (outcome' # outcome /\ Called.fn = "tune_model"
           /\ CURRENT_EXPERIMENT # <<>>) =>
          /\ Called.result = "raised" /\ Called.error = "NameError"
          /\ experiments' = experiments
          /\ CURRENT_EXPERIMENT' = CURRENT_EXPERIMENT]_vars

\* a setup that raised has replaced an experiment installed before, and a
\* guarded call was then delegated to the new one
DelegatedAfterFailedSetup ==
  /\ Len(experiments) = 2
  /\ experiments[1].setup = "done" /\ experiments[2].setup = "failed"
  /\ experiments[1].calls = 0 /\ experiments[2].calls = 1
  /\ CURRENT_EXPERIMENT = <<2>>
  /\ outcome[1].fn = "create_model" /\ outcome[1].n = 3

====
